---- MODULE Spec2Model ----
(***************************************************************************)
(* Provider routing and privacy enforcement of Daemon Codex:               *)
(* ProviderManager (the choke point), and the chat / categorize            *)
(* operations of LocalProvider, OpenAIProvider and OllamaCloudProvider.    *)
(***************************************************************************)
EXTENDS Integers, Sequences, FiniteSets, TLC

\* ------------------------------------------------------------------------
\* Bounds of the model
\* ------------------------------------------------------------------------
\* largest request.max_retries drawn for a request (the smallest is -1)
MaxRetriesBound == 1

\* ------------------------------------------------------------------------
\* Enumerations and value types (IProvider.hpp, ProviderManager.hpp)
\* ------------------------------------------------------------------------
PrivacyLevel == {"LocalOnly", "MetadataOnly", "ContentExcerpt", "FullContent"}

PrivacyMode == {"LocalOnly", "RemoteAllowed"}

\* the identities returned by the id() of the three provider classes
ProviderIds == {"local", "openai", "ollama-cloud"}

\* an empty std::string active_provider_id_
NoId == ""

\* a null ProviderPtr
NullProvider == [variant |-> "null"]

\* OllamaCloudConfig defaults
DefaultMaxRetries == 3

DefaultBackoffBaseMs == 1000

\* what a LocalProvider can be constructed with: an empty model path, the
\* path of a file that does not exist, of a file that exists and cannot be
\* read, of a usable model artifact
LocalConfigs == {"empty", "absent", "unreadable", "usable"}

\* std::filesystem::exists(model_path_): existence, not readability
LocalExists(config) == config \in {"unreadable", "usable"}

\* LocalProvider::is_configured
LocalIsConfigured(config) == config # "empty" /\ LocalExists(config)

\* LocalProvider(model_path) constructed with the given model path
LocalProviderWith(config) ==
  [variant |-> "Local", id |-> "local", requires_network |-> FALSE,
   config |-> config, configured |-> LocalIsConfigured(config),
   max_retries |-> 0, retry_backoff_base_ms |-> 0]

\* LocalProvider(model_path): configured iff the path is set and the model
\* artifact exists on disk
LocalProvider(configured) ==
  LocalProviderWith(IF configured THEN "usable" ELSE "empty")

\* what an OpenAIProvider can be constructed with: an empty API key or a key
OpenAIConfigs == {"no_key", "key"}

\* OpenAIProvider::is_configured
OpenAIIsConfigured(config) == config # "no_key"

\* OpenAIProvider(api_key, model) constructed with the given key
OpenAIProviderWith(config) ==
  [variant |-> "OpenAI", id |-> "openai", requires_network |-> TRUE,
   config |-> config, configured |-> OpenAIIsConfigured(config),
   max_retries |-> 0, retry_backoff_base_ms |-> 0]

\* OpenAIProvider(api_key, model): configured iff the API key is not empty
OpenAIProvider(configured) ==
  OpenAIProviderWith(IF configured THEN "key" ELSE "no_key")

\* what an OllamaCloudProvider can be constructed with: base_url and model
\* empty or set
OllamaConfigs == {"no_url_no_model", "no_url", "no_model", "complete"}

\* OllamaCloudProvider::is_configured
OllamaIsConfigured(config) == config = "complete"

\* OllamaCloudProvider(config) constructed with the given configuration
OllamaCloudProviderWith(config) ==
  [variant |-> "Ollama", id |-> "ollama-cloud", requires_network |-> TRUE,
   config |-> config, configured |-> OllamaIsConfigured(config),
   max_retries |-> DefaultMaxRetries,
   retry_backoff_base_ms |-> DefaultBackoffBaseMs]

\* OllamaCloudProvider(config): configured iff base_url and model are set
OllamaCloudProvider(configured) ==
  OllamaCloudProviderWith(IF configured THEN "complete" ELSE "no_url")

\* every provider object a caller can construct
Providers ==
  {LocalProvider(c) : c \in BOOLEAN} \cup
  {OpenAIProvider(c) : c \in BOOLEAN} \cup
  {OllamaCloudProvider(c) : c \in BOOLEAN}

\* struct ChatMessage
ChatMessage(role, content) == [role |-> role, content |-> content]

\* struct LlmRequest: the fields the routing layer reads
LlmRequest(privacy_level, allow_content_upload, max_retries, messages) ==
  [privacy_level |-> privacy_level,
   allow_content_upload |-> allow_content_upload,
   max_retries |-> max_retries,
   messages |-> messages]

\* struct LlmResponse with its default member initialisers
LlmResponse ==
  [text |-> "", provider_id |-> "", success |-> FALSE, error_code |-> 0,
   error_message |-> "", used_remote_inference |-> FALSE,
   actual_privacy_level |-> "LocalOnly",
   usage |-> [prompt_tokens |-> 0, completion_tokens |-> 0,
              total_tokens |-> 0]]

\* ------------------------------------------------------------------------
\* State of a ProviderManager, the record of the call just made, and the
\* calls in progress on the threads that share the Manager
\* ------------------------------------------------------------------------
VARIABLES providers, active_provider_id, privacy_mode, last, threads

vars == <<providers, active_provider_id, privacy_mode, last, threads>>

\* no call in progress: the worker thread is outside chat and categorize,
\* the administrative thread is outside unregister_provider; overlapped is
\* TRUE when an unregister of the active provider ran during the worker's call
NoThreads ==
  [worker |-> [pc |-> "idle", op |-> "none",
               request |-> LlmRequest("MetadataOnly", FALSE, 0, <<>>),
               item |-> [filepath |-> "", is_directory |-> FALSE,
                         consistency_context |-> ""],
               provider |-> NullProvider, overlapped |-> FALSE],
   admin |-> [pc |-> "idle", id |-> NoId]]

\* the record of a call: the operation, its arguments, its return value and
\* what it did to the collaborators (calls to the transport or the
\* underlying client, data handed to them, sleeps, the provider dispatched
\* to); active_before is the active identity when the call was made; fault
\* is TRUE when the call ended in an exception instead of a return value;
\* received is what the transport calls came back with, in order, kept by
\* the calls of RetrySpec; created counts the calls of create_client() and
\* client is what the underlying client did
\* Settings as create_provider_from_settings reads them: the choice, the
\* remote key and model, the custom entry that find_custom_llm returns for
\* the active custom id, and the two download URLs of the environment
\* (NoUrl: the variable is not set)
NoUrl == "<unset>"

Settings(llm_choice, remote_api_key, remote_model, custom, url_3b, url_7b) ==
  [llm_choice |-> llm_choice, remote_api_key |-> remote_api_key,
   remote_model |-> remote_model, custom |-> custom,
   LOCAL_LLM_3B_DOWNLOAD_URL |-> url_3b, LOCAL_LLM_7B_DOWNLOAD_URL |-> url_7b]

\* CustomLLM: the entry of a custom on-device model
CustomLLM(id, path) == [id |-> id, path |-> path]

NoSettings == Settings("Unset", "", "", CustomLLM("", ""), NoUrl, NoUrl)

NoCall ==
  [op |-> "none", path |-> "none", id |-> NoId, provider |-> NullProvider,
   mode |-> "LocalOnly", confirmed |-> FALSE, active_before |-> NoId,
   request |-> LlmRequest("MetadataOnly", FALSE, 0, <<>>),
   filepath |-> "", is_directory |-> FALSE, consistency_context |-> "",
   ret |-> FALSE, response |-> LlmResponse,
   calls |-> 0, sent |-> <<>>, sleeps |-> <<>>, invoked |-> NullProvider,
   fault |-> FALSE, received |-> <<>>, created |-> 0, client |-> "unused",
   settings |-> NoSettings, health |-> "none", overlapped |-> FALSE,
   models |-> <<>>]

\* ProviderManager::get_provider
get_provider(provider_id) ==
  IF provider_id \in ProviderIds THEN providers[provider_id] ELSE NullProvider

\* ProviderManager::active_provider
active_provider == get_provider(active_provider_id)

\* is_provider_allowed without the privacy-mode test
is_provider_allowed_Always(provider) == TRUE

\* ProviderManager::is_provider_allowed
is_provider_allowed(provider) ==
  IF ~provider.requires_network THEN TRUE
  ELSE privacy_mode = "RemoteAllowed"

\* ProviderManager::all_providers (as a set: the order is unspecified)
all_providers == {providers[i] : i \in ProviderIds} \ {NullProvider}

\* allowed_providers without the filter
allowed_providers_All == {providers[i] : i \in ProviderIds} \ {NullProvider}

\* ProviderManager::allowed_providers (as a set: the order is unspecified)
allowed_providers == {p \in all_providers : is_provider_allowed(p)}

\* ProviderManager::ProviderManager
Init ==
  /\ providers = [i \in ProviderIds |-> NullProvider]
  /\ active_provider_id = NoId
  /\ privacy_mode = "LocalOnly"
  /\ last = NoCall
  /\ threads = NoThreads

\* the registry after an insertion that keeps an entry already present
RegistryWith_Insert(provider) ==
  IF providers[provider.id] = NullProvider
    THEN [providers EXCEPT ![provider.id] = provider]
    ELSE providers

\* ProviderManager::register_provider, the assignment
\* providers_[provider_id] = std::move(provider)
RegistryWith(provider) == [providers EXCEPT ![provider.id] = provider]

\* ProviderManager::register_provider
register_provider(provider) ==
  /\ IF provider = NullProvider
       THEN UNCHANGED providers
       ELSE providers' = RegistryWith(provider)
  /\ UNCHANGED <<active_provider_id, privacy_mode, threads>>
  /\ last' = [NoCall EXCEPT !.op = "register_provider", !.provider = provider]

\* the active identity never cleared
ClearsActive_Never(provider_id) == FALSE

\* ProviderManager::unregister_provider, the test that clears the active
\* identity
ClearsActive(provider_id) == active_provider_id = provider_id

\* ProviderManager::unregister_provider
unregister_provider(provider_id) ==
  /\ IF get_provider(provider_id) # NullProvider
       THEN /\ providers' = [providers EXCEPT ![provider_id] = NullProvider]
            /\ active_provider_id' =
                 IF ClearsActive(provider_id) THEN NoId
                 ELSE active_provider_id
       ELSE UNCHANGED <<providers, active_provider_id>>
  /\ UNCHANGED <<privacy_mode, threads>>
  /\ last' = [NoCall EXCEPT !.op = "unregister_provider", !.id = provider_id,
                            !.active_before = active_provider_id]

\* ProviderManager::set_active_provider
set_active_provider(provider_id) ==
  /\ LET provider == get_provider(provider_id)
         ok == provider # NullProvider /\ is_provider_allowed(provider)
     IN /\ active_provider_id' = IF ok THEN provider_id ELSE active_provider_id
        /\ last' = [NoCall EXCEPT !.op = "set_active_provider",
                                  !.id = provider_id, !.ret = ok,
                                  !.active_before = active_provider_id]
  /\ UNCHANGED <<providers, privacy_mode, threads>>

\* the confirmation check dropped
ConfirmationMissing_Never(mode, user_confirmed) == FALSE

\* ProviderManager::set_privacy_mode, the confirmation check: switching to
\* RemoteAllowed without the user's confirmation is refused
ConfirmationMissing(mode, user_confirmed) ==
  mode = "RemoteAllowed" /\ ~user_confirmed

\* the deactivation dropped
DeactivatesActive_Never(mode) == FALSE

\* the deactivation applied to any active provider
DeactivatesActive_Any(mode) ==
  mode = "LocalOnly" /\ active_provider_id # NoId

\* ProviderManager::set_privacy_mode, the deactivation check: a switch to
\* LocalOnly clears an active provider that requires network
DeactivatesActive(mode) ==
  /\ mode = "LocalOnly"
  /\ active_provider_id # NoId
  /\ active_provider # NullProvider
  /\ active_provider.requires_network

\* a switch to RemoteAllowed that activates a registered commercial provider
ActiveAfterSwitch_Restores(mode) ==
  IF DeactivatesActive(mode) THEN NoId
  ELSE IF mode = "RemoteAllowed" /\ active_provider_id = NoId
            /\ providers["openai"] # NullProvider
         THEN "openai"
  ELSE active_provider_id

\* ProviderManager::set_privacy_mode, the active identity after an accepted
\* switch: cleared by the deactivation, otherwise left as it was
ActiveAfterSwitch(mode) ==
  IF DeactivatesActive(mode) THEN NoId ELSE active_provider_id

\* ProviderManager::set_privacy_mode
set_privacy_mode(mode, user_confirmed) ==
  /\ IF ConfirmationMissing(mode, user_confirmed)
       THEN /\ UNCHANGED <<privacy_mode, active_provider_id>>
            /\ last' = [NoCall EXCEPT !.op = "set_privacy_mode",
                          !.mode = mode, !.confirmed = user_confirmed,
                          !.active_before = active_provider_id,
                          !.ret = FALSE]
       ELSE /\ privacy_mode' = mode
            /\ active_provider_id' = ActiveAfterSwitch(mode)
            /\ last' = [NoCall EXCEPT !.op = "set_privacy_mode",
                          !.mode = mode, !.confirmed = user_confirmed,
                          !.active_before = active_provider_id,
                          !.ret = TRUE]
  /\ UNCHANGED <<providers, threads>>

\* ------------------------------------------------------------------------
\* Collaborators: the underlying inference client and the HTTP transport
\* ------------------------------------------------------------------------
\* a response body as the JSON document it parses to: valid is FALSE when
\* the body is not JSON, members are the members the parser looks for;
\* "message" is a member message that is not an object, and a member
\* marked ":object" holds an object where a string is expected
JsonBody(valid, members) ==
  [valid |-> valid, members |-> members, prompt_eval_count |-> 0,
   eval_count |-> 0]

\* a JSON document that carries the token counts: the members
\* "prompt_eval_count" and "eval_count" with the given values
JsonBodyWithCounts(members, prompt_eval_count, eval_count) ==
  [valid |-> TRUE,
   members |-> members \cup {"prompt_eval_count", "eval_count"},
   prompt_eval_count |-> prompt_eval_count, eval_count |-> eval_count]

\* an empty body
NoBody == JsonBody(FALSE, {})

\* OllamaCloudProvider::HttpResponse, as what a call of the HttpClient comes
\* back with: raises is TRUE when the call raises instead of returning
HttpResponse(status_code, body, error) ==
  [status_code |-> status_code, body |-> body, error |-> error,
   raises |-> FALSE]

\* the injected HttpClient raises (a std::function may throw)
TransportRaises == [HttpResponse(0, NoBody, "") EXCEPT !.raises = TRUE]

\* HttpResponse::success
HttpSuccess(h) == h.status_code >= 200 /\ h.status_code < 300

\* the text the mock client and the mock transport answer with
ReplyText == "Documents : Invoices"

\* the text of a body's top-level member response, and of its member error
GenerateText == "Images : Photos"

ErrorText == "model not found"

\* what one transport call can come back with
HttpOutcomes ==
  {HttpResponse(0, NoBody, "timeout"),
   HttpResponse(500, NoBody, ""),
   HttpResponse(404, NoBody, ""),
   HttpResponse(200, JsonBody(TRUE, {"message.content"}), ""),
   HttpResponse(200, JsonBody(TRUE, {"response"}), ""),
   HttpResponse(200, JsonBody(TRUE, {"error"}), ""),
   HttpResponse(200, JsonBody(TRUE, {}), ""),
   HttpResponse(200, NoBody, ""),
   HttpResponse(403, NoBody, ""),
   HttpResponse(200, JsonBody(TRUE, {"message"}), ""),
   HttpResponse(200, JsonBody(TRUE, {"message.content:object"}), ""),
   HttpResponse(200, JsonBody(TRUE, {"response:object"}), ""),
   HttpResponse(200, JsonBody(TRUE, {"error:object"}), ""),
   TransportRaises}

\* what the underlying client does: it answers, it raises from the call, or
\* the client factory raises
ClientOutcomes == {"ok", "throws", "create_throws"}

\* the outcome of a chat or categorize call: the response and what the call
\* did to the collaborators
Outcome(response, calls, sent, sleeps) ==
  [response |-> response, calls |-> calls, sent |-> sent, sleeps |-> sleeps,
   fault |-> FALSE, created |-> 0, client |-> "unused"]

\* the outcome of a call that reached create_client(): one client creation,
\* and what the client did (it answered, it raised, or the factory raised)
WithClient(client, outcome) ==
  [outcome EXCEPT !.created = 1, !.client = client]

\* the outcome of a chat or categorize call that an exception leaves: no
\* response is returned
Fault(calls, sent, sleeps) ==
  [response |-> LlmResponse, calls |-> calls, sent |-> sent,
   sleeps |-> sleeps, fault |-> TRUE, created |-> 0, client |-> "unused"]

\* ------------------------------------------------------------------------
\* LocalProvider
\* ------------------------------------------------------------------------
RECURSIVE LocalBuildPrompt(_)
\* LocalProvider::build_prompt
LocalBuildPrompt(messages) ==
  IF messages = <<>> THEN ""
  ELSE LET msg == Head(messages)
           prefix == CASE msg.role = "System" -> "System: "
                       [] msg.role = "User" -> "User: "
                       [] msg.role = "Assistant" -> "Assistant: "
       IN prefix \o msg.content \o "\n\n" \o LocalBuildPrompt(Tail(messages))

\* the response stamped with the privacy level of the request, as the
\* remote providers do
LocalResponse_LevelEchoed(p, request) ==
  [LlmResponse EXCEPT !.provider_id = p.id,
     !.used_remote_inference = FALSE,
     !.actual_privacy_level = request.privacy_level]

\* LocalProvider::chat and ::categorize, the response as first filled in
LocalResponse(p, request) ==
  [LlmResponse EXCEPT !.provider_id = p.id,
     !.used_remote_inference = FALSE,
     !.actual_privacy_level = "LocalOnly"]

\* LocalProvider::chat and ::categorize, the answer when is_configured() is
\* false
LocalNotConfigured(response) ==
  [response EXCEPT !.success = FALSE, !.error_code = 1,
     !.error_message =
       "Local provider not configured: model path missing or invalid"]

\* LocalProvider::chat
LocalChat(p, request, client) ==
  LET response == LocalResponse(p, request)
      prompt == [fn |-> "complete_prompt",
                 prompt |-> LocalBuildPrompt(request.messages)]
  IN IF ~p.configured
       THEN Outcome(LocalNotConfigured(response), 0, <<>>, <<>>)
     ELSE IF client = "create_throws"
       THEN WithClient(client, Outcome(
                    [response EXCEPT !.success = FALSE, !.error_code = 2,
                       !.error_message = "Local inference failed: "],
                    0, <<>>, <<>>))
     ELSE IF client = "throws"
       THEN WithClient(client, Outcome(
                    [response EXCEPT !.success = FALSE, !.error_code = 2,
                       !.error_message = "Local inference failed: "],
                    1, <<prompt>>, <<>>))
     ELSE WithClient(client, Outcome(
                    [response EXCEPT !.text = ReplyText, !.success = TRUE],
                  1, <<prompt>>, <<>>))

\* LocalProvider::categorize
LocalCategorize(p, filename, filepath, is_directory, consistency_context, base_request, client) ==
  LET response == LocalResponse(p, base_request)
      item == [fn |-> "categorize_file", file_name |-> filename,
               file_path |-> filepath,
               file_type |-> IF is_directory THEN "Directory" ELSE "File",
               consistency_context |-> consistency_context]
  IN IF ~p.configured
       THEN Outcome(LocalNotConfigured(response), 0, <<>>, <<>>)
     ELSE IF client = "create_throws"
       THEN WithClient(client, Outcome(
                    [response EXCEPT !.success = FALSE, !.error_code = 2,
                       !.error_message = "Local categorization failed: "],
                    0, <<>>, <<>>))
     ELSE IF client = "throws"
       THEN WithClient(client, Outcome(
                    [response EXCEPT !.success = FALSE, !.error_code = 2,
                       !.error_message = "Local categorization failed: "],
                    1, <<item>>, <<>>))
     ELSE WithClient(client, Outcome(
                    [response EXCEPT !.text = ReplyText, !.success = TRUE],
                  1, <<item>>, <<>>))

\* ------------------------------------------------------------------------
\* OpenAIProvider
\* ------------------------------------------------------------------------
\* create_privacy_error that keeps the used_remote_inference flag the caller set
OpenAICreatePrivacyError_RemoteFlagKept(p, reason) ==
  [LlmResponse EXCEPT !.provider_id = p.id, !.success = FALSE,
     !.error_code = 403,
     !.error_message = "Privacy control blocked request: " \o reason,
     !.used_remote_inference = TRUE]

\* OpenAIProvider::create_privacy_error
OpenAICreatePrivacyError(p, reason) ==
  [LlmResponse EXCEPT !.provider_id = p.id, !.success = FALSE,
     !.error_code = 403,
     !.error_message = "Privacy control blocked request: " \o reason,
     !.used_remote_inference = FALSE]

RECURSIVE OpenAICombinedPrompt(_)
\* the prompt loop of OpenAIProvider::chat: the User messages, concatenated
OpenAICombinedPrompt(messages) ==
  IF messages = <<>> THEN ""
  ELSE (IF Head(messages).role = "User" THEN Head(messages).content ELSE "")
         \o OpenAICombinedPrompt(Tail(messages))

\* the failed call of the underlying client made a second time
OpenAIClientCalls_Retried(client) ==
  IF client = "create_throws" THEN 0 ELSE IF client = "throws" THEN 2 ELSE 1

\* OpenAIProvider::chat and ::categorize, the calls of the underlying client
\* in the try block: one call and no loop around it; none when
\* create_client() raised before the call
OpenAIClientCalls(client) == IF client = "create_throws" THEN 0 ELSE 1

\* what those calls handed to the underlying client
OpenAISent(client, message) ==
  [k \in 1..OpenAIClientCalls(client) |-> message]

\* OpenAIProvider::chat
OpenAIChat(p, request, client) ==
  LET response == [LlmResponse EXCEPT !.provider_id = p.id,
                     !.used_remote_inference = TRUE,
                     !.actual_privacy_level = request.privacy_level]
      prompt == [fn |-> "complete_prompt",
                 prompt |-> OpenAICombinedPrompt(request.messages)]
  IN IF request.privacy_level = "LocalOnly"
       THEN Outcome(OpenAICreatePrivacyError(p,
                      "Request is marked LocalOnly but sent to remote provider"),
                    0, <<>>, <<>>)
     ELSE IF ~request.allow_content_upload /\ request.privacy_level = "FullContent"
       THEN Outcome(OpenAICreatePrivacyError(p,
                      "Full content upload requested but not explicitly allowed"),
                    0, <<>>, <<>>)
     ELSE IF ~p.configured
       THEN Outcome([response EXCEPT !.success = FALSE, !.error_code = 1,
                       !.error_message =
                         "OpenAI provider not configured: API key missing",
                       !.used_remote_inference = FALSE],
                    0, <<>>, <<>>)
     ELSE IF client = "create_throws"
       THEN WithClient(client, Outcome(
                    [response EXCEPT !.success = FALSE, !.error_code = 2,
                       !.error_message = "OpenAI request failed: "],
                    OpenAIClientCalls(client), <<>>, <<>>))
     ELSE IF client = "throws"
       THEN WithClient(client, Outcome(
                    [response EXCEPT !.success = FALSE, !.error_code = 2,
                       !.error_message = "OpenAI request failed: "],
                    OpenAIClientCalls(client),
                    OpenAISent(client, prompt), <<>>))
     ELSE WithClient(client, Outcome(
                    [response EXCEPT !.text = ReplyText, !.success = TRUE],
                  OpenAIClientCalls(client), OpenAISent(client, prompt),
                  <<>>))

\* the path handed to the client whatever the request says
OpenAISafePath_Always(filepath, base_request) == filepath

\* OpenAIProvider::categorize, safe_path: the path is handed to the client
\* only with upload consent or at level FullContent
OpenAISafePath(filepath, base_request) ==
  IF \/ base_request.allow_content_upload
     \/ base_request.privacy_level = "FullContent"
    THEN filepath ELSE ""

\* OpenAIProvider::categorize
OpenAICategorize(p, filename, filepath, is_directory, consistency_context, base_request, client) ==
  LET response == [LlmResponse EXCEPT !.provider_id = p.id,
                     !.used_remote_inference = TRUE,
                     !.actual_privacy_level = base_request.privacy_level]
      safe_path == OpenAISafePath(filepath, base_request)
      item == [fn |-> "categorize_file", file_name |-> filename,
               file_path |-> safe_path,
               file_type |-> IF is_directory THEN "Directory" ELSE "File",
               consistency_context |-> consistency_context]
  IN IF base_request.privacy_level = "LocalOnly"
       THEN Outcome(OpenAICreatePrivacyError(p,
                      "Categorization marked LocalOnly but sent to remote provider"),
                    0, <<>>, <<>>)
     ELSE IF ~p.configured
       THEN Outcome([response EXCEPT !.success = FALSE, !.error_code = 1,
                       !.error_message =
                         "OpenAI provider not configured: API key missing",
                       !.used_remote_inference = FALSE],
                    0, <<>>, <<>>)
     ELSE IF client = "create_throws"
       THEN WithClient(client, Outcome(
                    [response EXCEPT !.success = FALSE, !.error_code = 2,
                       !.error_message = "OpenAI categorization failed: "],
                    OpenAIClientCalls(client), <<>>, <<>>))
     ELSE IF client = "throws"
       THEN WithClient(client, Outcome(
                    [response EXCEPT !.success = FALSE, !.error_code = 2,
                       !.error_message = "OpenAI categorization failed: "],
                    OpenAIClientCalls(client),
                    OpenAISent(client, item), <<>>))
     ELSE WithClient(client, Outcome(
                    [response EXCEPT !.text = ReplyText, !.success = TRUE],
                  OpenAIClientCalls(client), OpenAISent(client, item),
                  <<>>))

\* ------------------------------------------------------------------------
\* OllamaCloudProvider
\* ------------------------------------------------------------------------
\* the product a * b in int (32-bit two's complement, wrapping), computed on
\* 16-bit halves; for 0 <= a < 2^15 and 0 <= b < 2^31
MulInt32(a, b) ==
  LET low == a * (b % 65536)
      lo16 == low % 65536
      hi16 == (a * (b \div 65536) + (low \div 65536)) % 65536
  IN (IF hi16 >= 32768 THEN hi16 - 65536 ELSE hi16) * 65536 + lo16

\* the delay before retry number retry_count, in OllamaCloudProvider::chat:
\* config_.retry_backoff_base_ms * (1 << (retry_count - 1)), in int
BackoffMs(base_ms, retry_count) == MulInt32(base_ms, 2 ^ (retry_count - 1))

\* OllamaCloudProvider::create_privacy_error
OllamaCreatePrivacyError(p, reason) ==
  [LlmResponse EXCEPT !.provider_id = p.id, !.success = FALSE,
     !.error_code = 403,
     !.error_message = "Privacy control blocked request: " \o reason,
     !.used_remote_inference = FALSE]

\* OllamaCloudProvider::create_config_error
OllamaCreateConfigError(p, reason) ==
  [LlmResponse EXCEPT !.provider_id = p.id, !.success = FALSE,
     !.error_code = 1,
     !.error_message = "Configuration error: " \o reason,
     !.used_remote_inference = FALSE]

\* OllamaCloudProvider::build_chat_payload: the JSON document sent
build_chat_payload(p, request) ==
  [model |-> "llama3.2", stream |-> FALSE,
   messages |->
     [i \in 1..Len(request.messages) |->
        [role |-> CASE request.messages[i].role = "System" -> "system"
                    [] request.messages[i].role = "User" -> "user"
                    [] request.messages[i].role = "Assistant" -> "assistant",
         content |-> request.messages[i].content]]]

\* OllamaCloudProvider::make_request: what is handed to the transport
make_request(endpoint, method, body) ==
  [endpoint |-> endpoint, method |-> method, body |-> body]

\* OllamaCloudProvider::parse_chat_response, the accessors that raise: the
\* JSON library raises from isMember on a value that is not an object and
\* from asString on an object, and nothing in the function catches it
parse_chat_response_raises(http_response) ==
  LET root == http_response.body
  IN /\ HttpSuccess(http_response)
     /\ root.valid
     /\ IF "message" \in root.members THEN TRUE
        ELSE IF "message.content:object" \in root.members THEN TRUE
        ELSE IF "message.content" \in root.members THEN FALSE
        ELSE IF "response:object" \in root.members THEN TRUE
        ELSE IF "response" \in root.members THEN FALSE
        ELSE "error:object" \in root.members

\* the sum of two int values in 32-bit two's complement
AddInt32(a, b) ==
  IF a > 0 /\ b > 0 /\ a > 2147483647 - b
    THEN ((a - 2147483647) - 1) + ((b - 2147483647) - 1)
  ELSE IF a < 0 /\ b < 0 /\ a < (-2147483647 - 1) - b
    THEN ((a + 2147483647) + 1) + ((b + 2147483647) + 1)
  ELSE a + b

\* OllamaCloudProvider::parse_chat_response, the usage: the counts the body
\* carries and their sum in int
WithUsage(response, root) ==
  LET prompt_tokens == IF "prompt_eval_count" \in root.members
                         THEN root.prompt_eval_count ELSE 0
      completion_tokens == IF "eval_count" \in root.members
                             THEN root.eval_count ELSE 0
  IN [response EXCEPT !.usage =
        [prompt_tokens |-> prompt_tokens,
         completion_tokens |-> completion_tokens,
         total_tokens |-> AddInt32(prompt_tokens, completion_tokens)]]

\* OllamaCloudProvider::parse_chat_response, the response it returns
parse_chat_response(p, http_response) ==
  LET response == [LlmResponse EXCEPT !.provider_id = p.id,
                     !.used_remote_inference = TRUE]
      root == http_response.body
  IN IF ~HttpSuccess(http_response)
       THEN [response EXCEPT !.success = FALSE,
               !.error_code = http_response.status_code,
               !.error_message =
                 "HTTP request failed: " \o http_response.error \o
                 (IF http_response.status_code > 0
                    THEN " (status: " \o ToString(http_response.status_code)
                           \o ")"
                    ELSE "")]
     ELSE IF ~root.valid
       THEN [response EXCEPT !.success = FALSE, !.error_code = 3,
               !.error_message = "Failed to parse JSON response: "]
     ELSE IF "message.content" \in root.members
       THEN WithUsage([response EXCEPT !.text = ReplyText, !.success = TRUE],
                      root)
     ELSE IF "response" \in root.members
       THEN WithUsage([response EXCEPT !.text = GenerateText,
                         !.success = TRUE], root)
     ELSE IF "error" \in root.members
       THEN WithUsage([response EXCEPT !.success = FALSE,
                         !.error_message = ErrorText], root)
     ELSE WithUsage([response EXCEPT !.success = FALSE,
                       !.error_message = "Unexpected response format"], root)

\* the break condition of the retry loop: success or a non-retryable error
NonRetryable(h) ==
  HttpSuccess(h) \/ (h.status_code >= 400 /\ h.status_code < 500)

\* no transport call follows this one: the loop breaks, or the exception the
\* transport raised leaves the loop and chat (chat has no handler)
EndsLoop(h) == h.raises \/ NonRetryable(h)

\* the loop condition that lets one more attempt through
LoopContinues_OneMore(retry_count, request) ==
  retry_count <= request.max_retries + 1

\* the loop condition with the last attempt cut off
LoopContinues_OffByOne(retry_count, request) ==
  retry_count < request.max_retries

\* the condition of the retry loop: while (retry_count <= request.max_retries)
LoopContinues(retry_count, request) == retry_count <= request.max_retries

\* what the transport answers to the k-th call: the k-th outcome of its
\* script, and its last one again once the script is used up
Answer(outcomes, k) ==
  IF k <= Len(outcomes) THEN outcomes[k]
  ELSE IF Len(outcomes) > 0 THEN outcomes[Len(outcomes)]
  ELSE HttpResponse(0, NoBody, "timeout")

\* the answer of an earlier failed attempt kept instead of the new one
Received_EarlierKept(http_response, h) ==
  IF http_response.status_code >= 500 THEN http_response ELSE h

\* the retry loop, http_response = make_request(...): the variable holds what
\* the call just made came back with
Received(http_response, h) == h

RECURSIVE RetryLoop(_, _, _, _, _, _, _)
\* the retry loop of OllamaCloudProvider::chat; outcomes[k] is what the
\* k-th transport call comes back with
RetryLoop(p, request, payload, outcomes, retry_count, http_response, done) ==
  IF LoopContinues(retry_count, request)
    THEN LET sleeps == IF retry_count > 0
                         THEN Append(done.sleeps,
                                BackoffMs(p.retry_backoff_base_ms, retry_count))
                         ELSE done.sleeps
             h == Received(http_response, Answer(outcomes, done.calls + 1))
             now == [calls |-> done.calls + 1,
                     sent |-> Append(done.sent,
                                make_request("/api/chat", "POST", payload)),
                     sleeps |-> sleeps, http_response |-> h]
         IN IF EndsLoop(h)
              THEN now
              ELSE RetryLoop(p, request, payload, outcomes, retry_count + 1,
                             h, now)
    ELSE [done EXCEPT !.http_response = http_response]

\* OllamaCloudProvider::chat
OllamaChat(p, request, outcomes) ==
  IF request.privacy_level = "LocalOnly"
    THEN Outcome(OllamaCreatePrivacyError(p,
                   "Request is marked LocalOnly but sent to remote provider"),
                 0, <<>>, <<>>)
  ELSE IF ~request.allow_content_upload /\ request.privacy_level = "FullContent"
    THEN Outcome(OllamaCreatePrivacyError(p,
                   "Full content upload requested but not explicitly allowed"),
                 0, <<>>, <<>>)
  ELSE IF ~p.configured
    THEN Outcome(OllamaCreateConfigError(p,
                   "Ollama Cloud provider not configured: base_url or model missing"),
                 0, <<>>, <<>>)
  ELSE LET loop == RetryLoop(p, request, build_chat_payload(p, request),
                             outcomes, 0, HttpResponse(0, NoBody, ""),
                             [calls |-> 0, sent |-> <<>>, sleeps |-> <<>>,
                              http_response |-> HttpResponse(0, NoBody, "")])
           response == parse_chat_response(p, loop.http_response)
       IN IF \/ loop.http_response.raises
             \/ parse_chat_response_raises(loop.http_response)
            THEN Fault(loop.calls, loop.sent, loop.sleeps)
            ELSE Outcome([response EXCEPT
                            !.actual_privacy_level = request.privacy_level],
                         loop.calls, loop.sent, loop.sleeps)

\* the system prompt of OllamaCloudProvider::categorize
OllamaSystemPrompt ==
  "You are a file categorization assistant. Always reply with one line in the format <Main category> : <Subcategory>."

\* OllamaCloudProvider::categorize
OllamaCategorize(p, filename, filepath, is_directory, consistency_context, base_request, outcomes) ==
  IF base_request.privacy_level = "LocalOnly"
    THEN Outcome(OllamaCreatePrivacyError(p,
                   "Categorization marked LocalOnly but sent to remote provider"),
                 0, <<>>, <<>>)
  ELSE IF ~p.configured
    THEN Outcome(OllamaCreateConfigError(p,
                   "Ollama Cloud provider not configured: base_url or model missing"),
                 0, <<>>, <<>>)
  ELSE LET item_type == IF is_directory THEN "directory" ELSE "file"
           named == IF \/ base_request.allow_content_upload
                       \/ base_request.privacy_level = "FullContent"
                      THEN "Categorize the " \o item_type \o " with full path: "
                             \o filepath \o "\nName: " \o filename
                      ELSE "Categorize " \o item_type \o ": " \o filename
           prompt == IF consistency_context # ""
                       THEN named \o "\n\n" \o consistency_context
                       ELSE named
           request == [base_request EXCEPT !.messages =
                         <<ChatMessage("System", OllamaSystemPrompt),
                           ChatMessage("User", prompt)>>]
       IN OllamaChat(p, request, outcomes)

\* ------------------------------------------------------------------------
\* Calls: the inputs drawn, the virtual dispatch, the Manager's choke point
\* ------------------------------------------------------------------------
\* the message list of the requests drawn
Messages == <<ChatMessage("System", "be brief"), ChatMessage("User", "test")>>

\* the requests drawn
Requests ==
  {LlmRequest(l, a, r, Messages) :
     l \in PrivacyLevel, a \in BOOLEAN, r \in -1..MaxRetriesBound}

\* the name of the item categorized
FileName == "photo.jpg"

\* the items drawn for categorize: path, kind and consistency context
Items ==
  {[filepath |-> "/home/user/photo.jpg", is_directory |-> FALSE,
    consistency_context |-> ""],
   [filepath |-> "/srv/photo.jpg", is_directory |-> FALSE,
    consistency_context |-> ""],
   [filepath |-> "/home/user/photos", is_directory |-> TRUE,
    consistency_context |-> "Images : Photos"]}

RECURSIVE ScriptsOver(_, _)
\* the outcomes, in order and drawn from S, of the transport calls of one
\* chat that may make up to n calls: a call follows only an outcome the loop
\* retries
ScriptsOver(S, n) ==
  IF n <= 0 THEN {<<>>}
  ELSE {<<h>> : h \in {x \in S : EndsLoop(x) \/ n = 1}} \cup
       {<<h>> \o t : h \in {x \in S : ~EndsLoop(x)},
                     t \in ScriptsOver(S, n - 1) \ {<<>>}}

\* the scripts of the transport for the calls made through the Manager or
\* on a provider object
TransportScripts(n) == ScriptsOver(HttpOutcomes, n)

\* what the collaborators of provider p do during one call: the client's
\* behaviour, and the outcome of each transport call in order
Environments(p, request) ==
  IF p.variant = "Ollama"
    THEN {[client |-> "ok", outcomes |-> o] :
            o \in TransportScripts(request.max_retries + 1)}
    ELSE {[client |-> c, outcomes |-> <<>>] : c \in ClientOutcomes}

\* IProvider::chat, dispatched on the dynamic type of the provider
ProviderChat(p, request, env) ==
  CASE p.variant = "Local" -> LocalChat(p, request, env.client)
    [] p.variant = "OpenAI" -> OpenAIChat(p, request, env.client)
    [] p.variant = "Ollama" -> OllamaChat(p, request, env.outcomes)

\* IProvider::categorize, dispatched on the dynamic type of the provider
ProviderCategorize(p, filename, filepath, is_directory, consistency_context, base_request, env) ==
  CASE p.variant = "Local" ->
         LocalCategorize(p, filename, filepath, is_directory,
                         consistency_context, base_request, env.client)
    [] p.variant = "OpenAI" ->
         OpenAICategorize(p, filename, filepath, is_directory,
                          consistency_context, base_request, env.client)
    [] p.variant = "Ollama" ->
         OllamaCategorize(p, filename, filepath, is_directory,
                          consistency_context, base_request, env.outcomes)

\* the arguments of categorize that describe the item; chat has none
NoItem == [filepath |-> "", is_directory |-> FALSE, consistency_context |-> ""]

\* the record of a chat or categorize call that went to provider p
CallRecord(op, path, p, request, item, out, invoked) ==
  [NoCall EXCEPT !.op = op, !.path = path, !.provider = p,
     !.request = request, !.filepath = item.filepath,
     !.is_directory = item.is_directory,
     !.consistency_context = item.consistency_context,
     !.response = out.response, !.calls = out.calls, !.sent = out.sent,
     !.sleeps = out.sleeps, !.invoked = invoked, !.fault = out.fault,
     !.created = out.created, !.client = out.client]

\* a caller invokes chat on a provider object, bypassing the Manager
DirectChat(p, request, env) ==
  /\ last' = CallRecord("chat", "direct", p, request, NoItem,
                        ProviderChat(p, request, env), p)
  /\ UNCHANGED <<providers, active_provider_id, privacy_mode, threads>>

\* a caller invokes categorize on a provider object, bypassing the Manager
DirectCategorize(p, filepath, is_directory, consistency_context, base_request, env) ==
  /\ last' = CallRecord("categorize", "direct", p, base_request,
                        [filepath |-> filepath, is_directory |-> is_directory,
                         consistency_context |-> consistency_context],
                        ProviderCategorize(p, FileName, filepath, is_directory,
                                           consistency_context, base_request,
                                           env), p)
  /\ UNCHANGED <<providers, active_provider_id, privacy_mode, threads>>

\* create_no_provider_error that leaves the error code unset
create_no_provider_error_NoCode ==
  [LlmResponse EXCEPT !.success = FALSE,
     !.error_message = "No active provider configured"]

\* ProviderManager::create_no_provider_error
create_no_provider_error ==
  [LlmResponse EXCEPT !.success = FALSE, !.error_code = 1,
     !.error_message = "No active provider configured"]

\* ProviderManager::create_privacy_blocked_error
create_privacy_blocked_error(provider_id) ==
  [LlmResponse EXCEPT !.provider_id = provider_id, !.success = FALSE,
     !.error_code = 403,
     !.error_message = "Request blocked: provider '" \o provider_id \o
        "' requires network but privacy mode is LocalOnly. " \o
        "Enable remote providers in settings if you want to use this provider."]

\* validate_request without the test of the request's privacy level
ValidateRequest_NoRequestCheck(request) ==
  LET provider == active_provider
  IN IF provider = NullProvider THEN "No active provider configured"
     ELSE IF provider.requires_network /\ privacy_mode = "LocalOnly"
       THEN "Active provider requires network but privacy mode is LocalOnly"
     ELSE ""

\* the result of ProviderManager::validate_request: the failure string, or
\* "" for std::nullopt
ValidateRequest(request) ==
  LET provider == active_provider
  IN IF provider = NullProvider THEN "No active provider configured"
     ELSE IF provider.requires_network /\ privacy_mode = "LocalOnly"
       THEN "Active provider requires network but privacy mode is LocalOnly"
     ELSE IF provider.requires_network /\ request.privacy_level = "LocalOnly"
       THEN "Request is marked LocalOnly but active provider requires network"
     ELSE ""

\* ProviderManager::validate_request
validate_request(request) ==
  /\ last' = [NoCall EXCEPT !.op = "validate_request", !.path = "manager",
                !.request = request,
                !.ret = (ValidateRequest(request) = ""),
                !.response = [LlmResponse EXCEPT
                                !.error_message = ValidateRequest(request)]]
  /\ UNCHANGED <<providers, active_provider_id, privacy_mode, threads>>

\* the request check dropped
RequestBlocked_Never(provider, request) == FALSE

\* ProviderManager::chat and ::categorize, the request check: a request
\* marked LocalOnly is not sent to a provider that requires network
RequestBlocked(provider, request) ==
  provider.requires_network /\ request.privacy_level = "LocalOnly"

\* the outcome of a Manager call that the Manager answers itself
Blocked(response) == Outcome(response, 0, <<>>, <<>>)

\* ProviderManager::chat that withdraws the upload consent before forwarding
ManagerChat_ConsentWithdrawn(request, env) ==
  /\ LET provider == active_provider
     IN last' =
          IF provider = NullProvider
            THEN CallRecord("chat", "manager", provider, request, NoItem,
                            Blocked(create_no_provider_error), NullProvider)
          ELSE IF ~is_provider_allowed(provider)
            THEN CallRecord("chat", "manager", provider, request, NoItem,
                            Blocked(create_privacy_blocked_error(provider.id)),
                            NullProvider)
          ELSE IF RequestBlocked(provider, request)
            THEN CallRecord("chat", "manager", provider, request, NoItem,
                   Blocked([LlmResponse EXCEPT !.provider_id = provider.id,
                      !.success = FALSE, !.error_code = 403,
                      !.error_message =
                        "Request marked as LocalOnly cannot be sent to remote provider"]),
                   NullProvider)
          ELSE CallRecord("chat", "manager", provider, request, NoItem,
                          ProviderChat(provider,
                            [request EXCEPT !.allow_content_upload = FALSE],
                            env),
                          provider)
  /\ UNCHANGED <<providers, active_provider_id, privacy_mode, threads>>

\* ProviderManager::chat
ManagerChat(request, env) ==
  /\ LET provider == active_provider
     IN last' =
          IF provider = NullProvider
            THEN CallRecord("chat", "manager", provider, request, NoItem,
                            Blocked(create_no_provider_error), NullProvider)
          ELSE IF ~is_provider_allowed(provider)
            THEN CallRecord("chat", "manager", provider, request, NoItem,
                            Blocked(create_privacy_blocked_error(provider.id)),
                            NullProvider)
          ELSE IF RequestBlocked(provider, request)
            THEN CallRecord("chat", "manager", provider, request, NoItem,
                   Blocked([LlmResponse EXCEPT !.provider_id = provider.id,
                      !.success = FALSE, !.error_code = 403,
                      !.error_message =
                        "Request marked as LocalOnly cannot be sent to remote provider"]),
                   NullProvider)
          ELSE CallRecord("chat", "manager", provider, request, NoItem,
                          ProviderChat(provider, request, env), provider)
  /\ UNCHANGED <<providers, active_provider_id, privacy_mode, threads>>

\* ProviderManager::categorize
ManagerCategorize(filepath, is_directory, consistency_context, base_request, env) ==
  /\ LET provider == active_provider
         item == [filepath |-> filepath, is_directory |-> is_directory,
                  consistency_context |-> consistency_context]
     IN last' =
          IF provider = NullProvider
            THEN CallRecord("categorize", "manager", provider, base_request,
                            item, Blocked(create_no_provider_error),
                            NullProvider)
          ELSE IF ~is_provider_allowed(provider)
            THEN CallRecord("categorize", "manager", provider, base_request,
                            item,
                            Blocked(create_privacy_blocked_error(provider.id)),
                            NullProvider)
          ELSE IF RequestBlocked(provider, base_request)
            THEN CallRecord("categorize", "manager", provider, base_request,
                   item,
                   Blocked([LlmResponse EXCEPT !.provider_id = provider.id,
                      !.success = FALSE, !.error_code = 403,
                      !.error_message =
                        "Categorization request marked as LocalOnly cannot be sent to remote provider"]),
                   NullProvider)
          ELSE CallRecord("categorize", "manager", provider, base_request,
                          item,
                          ProviderCategorize(provider, FileName, filepath,
                                             is_directory, consistency_context,
                                             base_request, env),
                          provider)
  /\ UNCHANGED <<providers, active_provider_id, privacy_mode, threads>>

\* the caller drops the value a call returned (requests and responses are
\* value objects that do not outlive the call)
Discard ==
  /\ last.op # "none"
  /\ last' = NoCall
  /\ UNCHANGED <<providers, active_provider_id, privacy_mode, threads>>

\* the collaborators the Manager's calls meet: those of the active provider
ActiveEnvironments(request) ==
  IF active_provider = NullProvider
    THEN {[client |-> "ok", outcomes |-> <<>>]}
    ELSE Environments(active_provider, request)

\* no call is in progress: the caller is free to make one
Idle == last.op = "none"

\* ------------------------------------------------------------------------
\* The retry loop on its own: chat of a self-hosted provider against every
\* script of a transport that also answers with the statuses at the edges
\* of the classes the loop tells apart
\* ------------------------------------------------------------------------
\* largest request.max_retries drawn for the retry loop (the smallest is -1)
MaxRetriesLoop == 3

\* statuses next to the bounds of the tests 200 <= s < 300 and 400 <= s < 500
EdgeOutcomes ==
  {HttpResponse(100, NoBody, ""),
   HttpResponse(301, NoBody, ""),
   HttpResponse(299, JsonBody(TRUE, {"response"}), ""),
   HttpResponse(400, NoBody, ""),
   HttpResponse(499, NoBody, ""),
   HttpResponse(599, NoBody, ""),
   HttpResponse(600, NoBody, "")}

\* the requests drawn for the retry loop
RetryRequests ==
  {LlmRequest(l, a, r, Messages) :
     l \in PrivacyLevel, a \in BOOLEAN, r \in -1..MaxRetriesLoop}

\* chat on a self-hosted provider whose transport follows the script
\* outcomes; the outcomes of the calls made are kept in the record
TransportChat(p, request, outcomes) ==
  /\ LET out == OllamaChat(p, request, outcomes)
     IN last' = [CallRecord("chat", "direct", p, request, NoItem, out, p)
                   EXCEPT !.received =
                            [k \in 1..out.calls |-> Answer(outcomes, k)]]
  /\ UNCHANGED <<providers, active_provider_id, privacy_mode, threads>>

\* the largest max_retries of the calls against a transport that keeps
\* failing
MaxRetriesLong == 23

\* requests that allow many retries
LongRetryRequests ==
  {LlmRequest("MetadataOnly", FALSE, r, Messages) :
     r \in (MaxRetriesLoop + 1)..MaxRetriesLong}

\* a transport that answers every call alike
Unchanging(h, n) == [k \in 1..n |-> h]

\* a configured self-hosted provider whose OllamaCloudConfig sets
\* max_retries
OllamaWithMaxRetries(max_retries) ==
  [OllamaCloudProvider(TRUE) EXCEPT !.max_retries = max_retries]

\* the self-hosted providers called: not configured, configured with the
\* default max_retries, configured with max_retries = 0
RetryProviders ==
  {OllamaCloudProvider(FALSE), OllamaCloudProvider(TRUE),
   OllamaWithMaxRetries(0)}

RetryNext ==
  \/ Idle /\ \E p \in RetryProviders, r \in RetryRequests :
        \E o \in ScriptsOver(HttpOutcomes \cup EdgeOutcomes, r.max_retries + 1) :
          TransportChat(p, r, o)
  \/ Idle /\ \E r \in LongRetryRequests,
               h \in {HttpResponse(0, NoBody, "timeout"),
                      HttpResponse(500, NoBody, "")} :
        TransportChat(OllamaCloudProvider(TRUE), r,
                      Unchanging(h, r.max_retries + 1))
  \/ Discard

RetrySpec == Init /\ [][RetryNext]_vars

\* ------------------------------------------------------------------------
\* The parser of the self-hosted provider on its own: parse_chat_response on
\* every shape of answer
\* ------------------------------------------------------------------------
\* the token counts a body carries
TokenCounts == {0, 12, 2147483647}

\* the member sets of a body: message absent, not an object, with a string
\* content or with an object content; response and error absent, a string or
\* an object
BodyMembers ==
  {m \cup r \cup e :
     m \in {{}, {"message"}, {"message.content"}, {"message.content:object"}},
     r \in {{}, {"response"}, {"response:object"}},
     e \in {{}, {"error"}, {"error:object"}}}

ParseBodies ==
  {NoBody} \cup {JsonBody(TRUE, ms) : ms \in BodyMembers} \cup
  {JsonBodyWithCounts(ms, pc, ec) :
     ms \in BodyMembers, pc \in TokenCounts, ec \in TokenCounts}

ParseInputs ==
  {HttpResponse(s, b, "") : s \in {200, 404}, b \in ParseBodies}

\* OllamaCloudProvider::parse_chat_response applied to one answer of the
\* transport
ParseChatResponse(p, h) ==
  /\ last' = [NoCall EXCEPT !.op = "parse_chat_response", !.path = "direct",
                !.provider = p, !.invoked = p, !.received = <<h>>,
                !.fault = parse_chat_response_raises(h),
                !.response = IF parse_chat_response_raises(h) THEN LlmResponse
                             ELSE parse_chat_response(p, h)]
  /\ UNCHANGED <<providers, active_provider_id, privacy_mode, threads>>

ParseNext ==
  \/ Idle /\ \E h \in ParseInputs :
        ParseChatResponse(OllamaCloudProvider(TRUE), h)
  \/ Discard

ParseSpec == Init /\ [][ParseNext]_vars

\* ------------------------------------------------------------------------
\* The provider factory on its own: create_provider_from_settings on every
\* combination of settings
\* ------------------------------------------------------------------------
LLMChoices == {"Unset", "Remote", "Local_3b", "Local_7b", "Custom", "OllamaCloud"}

CustomLLMs ==
  {CustomLLM("", ""), CustomLLM("mine", ""), CustomLLM("", "/models/mine.gguf"),
   CustomLLM("mine", "/models/mine.gguf")}

DownloadUrls == {NoUrl, "https://host/model.gguf"}

AllSettings ==
  {Settings(c, k, m, l, u3, u7) :
     c \in LLMChoices, k \in {"", "sk-key"}, m \in {"", "gpt-4o"},
     l \in CustomLLMs, u3 \in DownloadUrls, u7 \in DownloadUrls}

\* what is on disk at the model path a provider is built with
DiskStates == {"absent", "unreadable", "usable"}

\* ProviderFactory::create_openai_provider
create_openai_provider(api_key, model) ==
  OpenAIProviderWith(IF api_key = "" THEN "no_key" ELSE "key")

\* ProviderFactory::create_local_provider
create_local_provider(model_path, disk) ==
  LocalProviderWith(IF model_path = "" THEN "empty" ELSE disk)

\* Utils::make_default_path_to_file_from_download_url: the file name of the
\* URL in the default model directory
make_default_path_to_file_from_download_url(url) ==
  IF url = "https://host/model.gguf" THEN "/default/model.gguf" ELSE ""

\* ProviderFactory::create_provider_from_settings
create_provider_from_settings(settings, disk) ==
  CASE settings.llm_choice = "Remote" ->
         create_openai_provider(settings.remote_api_key, settings.remote_model)
    [] settings.llm_choice = "Custom" ->
         IF settings.custom.id = "" \/ settings.custom.path = ""
         THEN NullProvider
         ELSE create_local_provider(settings.custom.path, disk)
    [] settings.llm_choice \in {"Local_3b", "Local_7b"} ->
         LET env_url == IF settings.llm_choice = "Local_3b"
                        THEN settings.LOCAL_LLM_3B_DOWNLOAD_URL
                        ELSE settings.LOCAL_LLM_7B_DOWNLOAD_URL
         IN IF env_url = NoUrl THEN NullProvider
            ELSE create_local_provider(
                   make_default_path_to_file_from_download_url(env_url), disk)
    [] settings.llm_choice = "OllamaCloud" -> NullProvider
    [] OTHER -> NullProvider

\* a caller builds a provider from the settings
CreateProviderFromSettings(settings, disk) ==
  /\ last' = [NoCall EXCEPT !.op = "create_provider_from_settings",
                            !.path = "factory", !.settings = settings,
                            !.provider =
                              create_provider_from_settings(settings, disk)]
  /\ UNCHANGED <<providers, active_provider_id, privacy_mode, threads>>

FactoryNext ==
  \/ Idle /\ \E s \in AllSettings, d \in DiskStates :
        CreateProviderFromSettings(s, d)
  \/ Discard

FactorySpec == Init /\ [][FactoryNext]_vars

\* LocalProvider::health_check
LocalHealthCheck(p) ==
  [health |-> IF p.config = "empty" THEN "NotConfigured"
              ELSE IF ~LocalExists(p.config) THEN "Unavailable"
              ELSE "Healthy",
   calls |-> 0, fault |-> FALSE]

\* the model path a LocalProvider was constructed with, and its file name
ModelPath(config) == IF config = "empty" THEN "" ELSE "/models/model.gguf"

ModelFileName == "model.gguf"

\* list_models that lists the path without looking at the disk
LocalListModels_Unchecked(p) ==
  IF p.config # "empty"
    THEN <<[id |-> ModelPath(p.config), name |-> ModelFileName,
            description |-> "Local GGUF model", is_local |-> TRUE]>>
    ELSE <<>>

\* LocalProvider::list_models
LocalListModels(p) ==
  IF p.config # "empty" /\ LocalExists(p.config)
    THEN <<[id |-> ModelPath(p.config), name |-> ModelFileName,
            description |-> "Local GGUF model", is_local |-> TRUE]>>
    ELSE <<>>

\* a caller asks a local provider object for its models
list_models(p) ==
  /\ last' = [NoCall EXCEPT !.op = "list_models", !.path = "direct",
                !.provider = p, !.invoked = p, !.models = LocalListModels(p)]
  /\ UNCHANGED <<providers, active_provider_id, privacy_mode, threads>>

\* OpenAIProvider::health_check
OpenAIHealthCheck(p) ==
  [health |-> IF p.config = "no_key" THEN "NotConfigured" ELSE "Healthy",
   calls |-> 0, fault |-> FALSE]

\* OllamaCloudProvider::health_check, where h is what the transport answers
\* to the GET of the health endpoint
OllamaHealthCheck(p, h) ==
  IF p.config \in {"no_url", "no_url_no_model"}
    THEN [health |-> "NotConfigured", calls |-> 0, fault |-> FALSE]
  ELSE IF h.raises
    THEN [health |-> "none", calls |-> 1, fault |-> TRUE]
  ELSE [health |-> IF ~HttpSuccess(h) THEN "Unavailable" ELSE "Healthy",
        calls |-> 1, fault |-> FALSE]

\* IProvider::health_check, dispatched on the dynamic type of the provider
ProviderHealthCheck(p, h) ==
  CASE p.variant = "Local" -> LocalHealthCheck(p)
    [] p.variant = "OpenAI" -> OpenAIHealthCheck(p)
    [] p.variant = "Ollama" -> OllamaHealthCheck(p, h)

\* a caller asks a provider object for its health
health_check(p, h) ==
  /\ LET out == ProviderHealthCheck(p, h)
     IN last' = [NoCall EXCEPT !.op = "health_check", !.path = "direct",
                   !.provider = p, !.invoked = p, !.health = out.health,
                   !.calls = out.calls, !.fault = out.fault]
  /\ UNCHANGED <<providers, active_provider_id, privacy_mode, threads>>

\* ------------------------------------------------------------------------
\* The provider objects on their own: chat and categorize on a provider
\* constructed with every configuration
\* ------------------------------------------------------------------------
\* every provider object, by what it was constructed with
ProviderObjects ==
  {LocalProviderWith(c) : c \in LocalConfigs} \cup
  {OpenAIProviderWith(c) : c \in OpenAIConfigs} \cup
  {OllamaCloudProviderWith(c) : c \in OllamaConfigs}

ObjectNext ==
  \/ Idle /\ \E p \in ProviderObjects, r \in Requests :
        \E e \in Environments(p, r) : DirectChat(p, r, e)
  \/ Idle /\ \E p \in ProviderObjects, i \in Items, r \in Requests :
        \E e \in Environments(p, r) :
          DirectCategorize(p, i.filepath, i.is_directory,
                           i.consistency_context, r, e)
  \/ Idle /\ \E p \in ProviderObjects, h \in HttpOutcomes : health_check(p, h)
  \/ Idle /\ \E c \in LocalConfigs : list_models(LocalProviderWith(c))
  \/ Discard

ObjectSpec == Init /\ [][ObjectNext]_vars

\* ------------------------------------------------------------------------
\* The Manager shared by two threads: an administrative thread that
\* registers, activates, changes the privacy mode and unregisters, and a
\* worker thread inside chat or categorize. The Manager holds no lock, so
\* the worker's statements interleave with the administrative calls.
\* ------------------------------------------------------------------------
\* the providers the administrative thread registers
SharedProviders == {LocalProvider(TRUE), OpenAIProvider(TRUE)}

\* the requests and the item of the worker's calls
WorkerRequests ==
  {LlmRequest(l, FALSE, 0, Messages) : l \in {"MetadataOnly", "LocalOnly"}}

WorkerItems == {NoItem, [filepath |-> "/home/user/photo.jpg",
                         is_directory |-> FALSE, consistency_context |-> ""]}

\* the worker's call in progress: chat for no item, categorize for an item
WorkerOp(item) == IF item = NoItem THEN "chat" ELSE "categorize"

\* what providers_.find can come back with while erase runs on the other
\* thread (a data race on the std::unordered_map): a fault, no entry, or the
\* entry
RacingLookups == {"fault", "absent", "found"}

\* ProviderManager::unregister_provider up to the start of
\* providers_.erase(it) on the administrative thread
UnregisterBegin(provider_id) ==
  /\ threads.admin.pc = "idle"
  /\ get_provider(provider_id) # NullProvider
  /\ threads' = [threads EXCEPT
                    !.admin = [pc |-> "erasing", id |-> provider_id],
                    !.worker.overlapped =
                      \/ @
                      \/ /\ threads.worker.pc # "idle"
                         /\ provider_id = active_provider_id]
  /\ UNCHANGED <<providers, active_provider_id, privacy_mode, last>>

\* ProviderManager::unregister_provider from the end of erase: the entry is
\* gone and the active identity is cleared when it was the erased one
UnregisterEnd ==
  /\ threads.admin.pc = "erasing"
  /\ providers' = [providers EXCEPT ![threads.admin.id] = NullProvider]
  /\ active_provider_id' =
       IF ClearsActive(threads.admin.id) THEN NoId ELSE active_provider_id
  /\ threads' = [threads EXCEPT !.admin = NoThreads.admin]
  /\ UNCHANGED <<privacy_mode, last>>

\* the worker returns from its call with the given outcome
WorkerReturns(out, invoked) ==
  /\ last' = [CallRecord(threads.worker.op, "worker", threads.worker.provider,
                         threads.worker.request, threads.worker.item, out,
                         invoked)
                EXCEPT !.mode = privacy_mode,
                       !.overlapped = threads.worker.overlapped]
  /\ threads' = [threads EXCEPT !.worker = NoThreads.worker]

\* ProviderManager::chat and ::categorize, auto provider = active_provider()
\* on the worker thread
WorkerLookup(request, item, racing) ==
  /\ threads.worker.pc = "idle"
  /\ LET call == [pc |-> "looked_up", op |-> WorkerOp(item),
                  request |-> request, item |-> item,
                  provider |-> active_provider,
                  overlapped |-> /\ threads.admin.pc = "erasing"
                                 /\ threads.admin.id = active_provider_id]
     IN IF threads.admin.pc = "erasing" /\ racing = "fault"
          THEN last' = [CallRecord(call.op, "worker", NullProvider, request,
                                   item, Fault(0, <<>>, <<>>), NullProvider)
                          EXCEPT !.mode = privacy_mode,
                                 !.overlapped = call.overlapped]
               /\ UNCHANGED threads
        ELSE IF threads.admin.pc = "erasing" /\ racing = "absent"
          THEN threads' = [threads EXCEPT
                             !.worker = [call EXCEPT !.provider = NullProvider]]
               /\ UNCHANGED last
        ELSE threads' = [threads EXCEPT !.worker = call]
             /\ UNCHANGED last
  /\ UNCHANGED <<providers, active_provider_id, privacy_mode>>

\* ProviderManager::chat and ::categorize, the tests of the provider looked
\* up: absent, or not allowed under the privacy mode read now
WorkerCheck ==
  /\ threads.worker.pc = "looked_up"
  /\ LET provider == threads.worker.provider
     IN IF provider = NullProvider
          THEN WorkerReturns(Blocked(create_no_provider_error), NullProvider)
        ELSE IF ~is_provider_allowed(provider)
          THEN WorkerReturns(Blocked(create_privacy_blocked_error(provider.id)),
                             NullProvider)
        ELSE threads' = [threads EXCEPT !.worker.pc = "allowed"]
             /\ UNCHANGED last
  /\ UNCHANGED <<providers, active_provider_id, privacy_mode>>

\* ProviderManager::chat and ::categorize, the request check and the
\* dispatch to the provider looked up
WorkerDispatch(env) ==
  /\ threads.worker.pc = "allowed"
  /\ LET provider == threads.worker.provider
         request == threads.worker.request
         item == threads.worker.item
     IN IF RequestBlocked(provider, request)
          THEN WorkerReturns(
                 Blocked([LlmResponse EXCEPT !.provider_id = provider.id,
                    !.success = FALSE, !.error_code = 403,
                    !.error_message =
                      IF threads.worker.op = "chat"
                      THEN "Request marked as LocalOnly cannot be sent to remote provider"
                      ELSE "Categorization request marked as LocalOnly cannot be sent to remote provider"]),
                 NullProvider)
        ELSE IF threads.worker.op = "chat"
          THEN WorkerReturns(ProviderChat(provider, request, env), provider)
        ELSE WorkerReturns(
               ProviderCategorize(provider, FileName, item.filepath,
                                  item.is_directory, item.consistency_context,
                                  request, env),
               provider)
  /\ UNCHANGED <<providers, active_provider_id, privacy_mode>>

SharedNext ==
  \/ threads.admin.pc = "idle" /\ \E p \in SharedProviders : register_provider(p)
  \/ threads.admin.pc = "idle" /\ \E i \in ProviderIds : set_active_provider(i)
  \/ threads.admin.pc = "idle" /\ \E m \in PrivacyMode, c \in BOOLEAN :
        set_privacy_mode(m, c)
  \/ \E i \in ProviderIds : UnregisterBegin(i)
  \/ UnregisterEnd
  \/ \E r \in WorkerRequests, i \in WorkerItems, o \in RacingLookups :
        WorkerLookup(r, i, o)
  \/ WorkerCheck
  \/ \E e \in Environments(threads.worker.provider, threads.worker.request) :
        WorkerDispatch(e)

SharedSpec == Init /\ [][SharedNext]_vars

Next ==
  \/ Idle /\ \E p \in Providers \cup {NullProvider} : register_provider(p)
  \/ Idle /\ \E i \in ProviderIds \cup {"unknown"} : unregister_provider(i)
  \/ Idle /\ \E i \in ProviderIds \cup {"unknown"} : set_active_provider(i)
  \/ Idle /\ \E m \in PrivacyMode, c \in BOOLEAN : set_privacy_mode(m, c)
  \/ Idle /\ \E r \in Requests : validate_request(r)
  \/ Idle /\ \E r \in Requests : \E e \in ActiveEnvironments(r) :
        ManagerChat(r, e)
  \/ Idle /\ \E i \in Items, r \in Requests : \E e \in ActiveEnvironments(r) :
        ManagerCategorize(i.filepath, i.is_directory, i.consistency_context,
                          r, e)
  \/ Idle /\ \E p \in Providers, r \in Requests : \E e \in Environments(p, r) :
        DirectChat(p, r, e)
  \/ Idle /\ \E p \in Providers, i \in Items, r \in Requests :
        \E e \in Environments(p, r) :
          DirectCategorize(p, i.filepath, i.is_directory,
                           i.consistency_context, r, e)
  \/ Discard

Spec == Init /\ [][Next]_vars

\* ------------------------------------------------------------------------
\* Properties
\* ------------------------------------------------------------------------
\* C1: a request marked LocalOnly that reaches a provider requiring network,
\* by provider.chat, provider.categorize, Manager.chat or Manager.categorize,
\* configured or not, is answered success = false, error_code = 403,
\* used_remote_inference = false, and no transport or client call is made.
C1_LocalOnlyNeverLeaves ==
  (/\ last.op \in {"chat", "categorize"}
   /\ last.provider # NullProvider
   /\ last.provider.requires_network
   /\ last.request.privacy_level = "LocalOnly")
  => /\ last.response.success = FALSE
     /\ last.response.error_code = 403
     /\ last.response.used_remote_inference = FALSE
     /\ last.calls = 0
     /\ last.sent = <<>>

\* C1 witness: Manager.categorize with an unconfigured self-hosted provider
\* active has answered a LocalOnly request
C1_Witness ==
  /\ last.op = "categorize"
  /\ last.path = "manager"
  /\ last.provider = OllamaCloudProvider(FALSE)
  /\ last.request.privacy_level = "LocalOnly"
  /\ last.response.error_code = 403

\* C2 (as claimed): a FullContent request without upload consent sent to a
\* remote provider, by chat or by categorize, is blocked with success = false
\* and error_code = 403, and nothing reaches the transport or the client.
C2_FullContentNeedsConsent ==
  (/\ last.op \in {"chat", "categorize"}
   /\ last.provider # NullProvider
   /\ last.provider.requires_network
   /\ last.invoked # NullProvider
   /\ last.request.privacy_level = "FullContent"
   /\ last.request.allow_content_upload = FALSE)
  => /\ last.response.success = FALSE
     /\ last.response.error_code = 403
     /\ last.calls = 0
     /\ last.sent = <<>>

\* C3: Manager.chat and Manager.categorize hand the call to the active
\* provider only if it is allowed (it does not require network, or the mode
\* is RemoteAllowed) and the request is not a LocalOnly one for a provider
\* requiring network; otherwise they answer with the specific error
\* (no active provider; privacy-blocked, 403, tagged with the provider id;
\* request marked LocalOnly, 403) and the provider is not invoked.
C3_ChokePoint ==
  (last.path = "manager" /\ last.op \in {"chat", "categorize"})
  => LET p == active_provider
         r == last.response
     IN /\ last.provider = p
        /\ last.invoked # NullProvider
             => /\ last.invoked = p
                /\ (~p.requires_network \/ privacy_mode = "RemoteAllowed")
                /\ ~(p.requires_network
                       /\ last.request.privacy_level = "LocalOnly")
        /\ p = NullProvider
             => /\ last.invoked = NullProvider /\ last.calls = 0
                /\ r.success = FALSE /\ r.error_code = 1
                /\ r.error_message = "No active provider configured"
        /\ (p # NullProvider /\ p.requires_network
              /\ privacy_mode = "LocalOnly")
             => /\ last.invoked = NullProvider /\ last.calls = 0
                /\ r.success = FALSE /\ r.error_code = 403
                /\ r.provider_id = p.id
        /\ (p # NullProvider /\ p.requires_network
              /\ privacy_mode = "RemoteAllowed"
              /\ last.request.privacy_level = "LocalOnly")
             => /\ last.invoked = NullProvider /\ last.calls = 0
                /\ r.success = FALSE /\ r.error_code = 403
                /\ r.provider_id = p.id
                /\ r.error_message \in
                     {"Request marked as LocalOnly cannot be sent to remote provider",
                      "Categorization request marked as LocalOnly cannot be sent to remote provider"}

\* C3 witness: Manager.chat has refused a LocalOnly request while a remote
\* provider was active
C3_Witness ==
  /\ last.path = "manager"
  /\ last.op = "chat"
  /\ active_provider = OpenAIProvider(TRUE)
  /\ privacy_mode = "RemoteAllowed"
  /\ last.request.privacy_level = "LocalOnly"
  /\ last.invoked = NullProvider

\* C4: after any sequence of register (re-registration under a registered
\* identity included), unregister, set_active and set_privacy_mode, an active
\* provider that requires network implies the mode RemoteAllowed.
C4_NoRemoteActiveInLocalOnly ==
  (active_provider # NullProvider /\ active_provider.requires_network)
  => privacy_mode = "RemoteAllowed"

\* C4 witness: the active remote provider has just been registered again
\* under its identity
C4_Witness ==
  /\ last.op = "register_provider"
  /\ last.provider # NullProvider
  /\ last.provider.id = active_provider_id
  /\ active_provider = OpenAIProvider(FALSE)
  /\ privacy_mode = "RemoteAllowed"

\* C5: a Manager starts in mode LocalOnly; set_privacy_mode(RemoteAllowed,
\* false) returns false and leaves the mode, the registry and the active
\* provider unchanged in every state; set_privacy_mode(RemoteAllowed, true)
\* returns true and sets the mode to RemoteAllowed.
C5_RemoteNeedsConfirmation ==
  /\ privacy_mode = "LocalOnly"
  /\ [][(last'.op = "set_privacy_mode" /\ last'.mode = "RemoteAllowed")
          => IF last'.confirmed
               THEN last'.ret = TRUE /\ privacy_mode' = "RemoteAllowed"
               ELSE /\ last'.ret = FALSE
                    /\ privacy_mode' = privacy_mode
                    /\ providers' = providers
                    /\ active_provider_id' = active_provider_id]_vars

\* C5 witness: set_privacy_mode(RemoteAllowed, false) has been refused on a
\* Manager in mode LocalOnly with an active provider
C5_Witness ==
  /\ last.op = "set_privacy_mode"
  /\ last.mode = "RemoteAllowed"
  /\ last.confirmed = FALSE
  /\ last.ret = FALSE
  /\ privacy_mode = "LocalOnly"
  /\ active_provider_id = "local"

\* C6: set_privacy_mode(LocalOnly, confirmed) returns true for either value
\* of confirmed, in every state; afterwards the mode is LocalOnly, the active
\* provider is absent if the one active before required network, and an
\* active provider that does not require network is still active.
C6_LocalOnlyDeactivatesRemote ==
  [][(last'.op = "set_privacy_mode" /\ last'.mode = "LocalOnly")
       => /\ last'.ret = TRUE
          /\ privacy_mode' = "LocalOnly"
          /\ IF active_provider # NullProvider
                  /\ active_provider.requires_network
               THEN active_provider' = NullProvider
               ELSE active_provider' = active_provider]_vars

\* C6 witness: set_privacy_mode(LocalOnly, false) has deactivated the remote
\* provider that was active
C6_Witness ==
  /\ last.op = "set_privacy_mode"
  /\ last.mode = "LocalOnly"
  /\ last.confirmed = FALSE
  /\ last.active_before = "openai"
  /\ active_provider = NullProvider
  /\ providers["openai"] # NullProvider

\* C7: set_active(id) returns false and leaves the active provider as it was
\* when id is not registered or the provider requires network while the mode
\* is LocalOnly; in every other case it returns true and the provider
\* registered under id becomes the active one.
C7_SetActive ==
  [][last'.op = "set_active_provider"
       => LET p == get_provider(last'.id)
          IN IF \/ p = NullProvider
                \/ (p.requires_network /\ privacy_mode = "LocalOnly")
               THEN /\ last'.ret = FALSE
                    /\ active_provider_id' = active_provider_id
                    /\ active_provider' = active_provider
               ELSE /\ last'.ret = TRUE
                    /\ active_provider' = p]_vars

\* C7 witness: set_active of a registered remote provider has been refused
\* in mode LocalOnly and the local provider is still the active one
C7_Witness ==
  /\ last.op = "set_active_provider"
  /\ last.id = "ollama-cloud"
  /\ providers["ollama-cloud"] # NullProvider
  /\ last.ret = FALSE
  /\ privacy_mode = "LocalOnly"
  /\ active_provider_id = "local"

\* C8: allowed_providers() is exactly the registered providers that do not
\* require network when the mode is LocalOnly and exactly all registered
\* providers when it is RemoteAllowed; set_active(id) of a registered id
\* succeeds iff that provider is in allowed_providers().
C8_AllowedProviders ==
  /\ [](allowed_providers =
          {providers[i] : i \in {j \in ProviderIds :
              /\ providers[j] # NullProvider
              /\ (privacy_mode = "LocalOnly"
                    => ~providers[j].requires_network)}})
  /\ [][(last'.op = "set_active_provider"
           /\ get_provider(last'.id) # NullProvider)
          => (last'.ret = TRUE
                <=> get_provider(last'.id) \in allowed_providers)]_vars

\* C8 witness: with a local and a remote provider registered in mode
\* LocalOnly, only the local one is listed and set_active of the remote one
\* has failed
C8_Witness ==
  /\ privacy_mode = "LocalOnly"
  /\ all_providers = {LocalProvider(FALSE), OpenAIProvider(TRUE)}
  /\ allowed_providers = {LocalProvider(FALSE)}
  /\ last.op = "set_active_provider"
  /\ last.id = "openai"
  /\ last.ret = FALSE

\* C9: validate_request changes no Manager state and returns a failure
\* exactly when no provider is active, or the active provider requires
\* network and the mode is LocalOnly, or the active provider requires
\* network and the request is marked LocalOnly.
C9_ValidateRequest ==
  [][last'.op = "validate_request"
       => /\ providers' = providers
          /\ active_provider_id' = active_provider_id
          /\ privacy_mode' = privacy_mode
          /\ (last'.response.error_message # "") = (last'.ret = FALSE)
          /\ (last'.ret = FALSE)
               <=> \/ active_provider = NullProvider
                   \/ (active_provider.requires_network
                         /\ privacy_mode = "LocalOnly")
                   \/ (active_provider.requires_network
                         /\ last'.request.privacy_level = "LocalOnly")]_vars

\* C9 witness: validate_request has failed a LocalOnly request while a remote
\* provider was active in mode RemoteAllowed
C9_Witness ==
  /\ last.op = "validate_request"
  /\ last.request.privacy_level = "LocalOnly"
  /\ active_provider = OpenAIProvider(TRUE)
  /\ privacy_mode = "RemoteAllowed"
  /\ last.ret = FALSE

\* C10: whenever no provider is active, Manager.chat and Manager.categorize
\* return success = false, error_code = 1, the message "No active provider
\* configured" and used_remote_inference = false.
C10_NoActiveProvider ==
  (/\ last.path = "manager"
   /\ last.op \in {"chat", "categorize"}
   /\ active_provider = NullProvider)
  => /\ last.response.success = FALSE
     /\ last.response.error_code = 1
     /\ last.response.error_message = "No active provider configured"
     /\ last.response.used_remote_inference = FALSE

\* C10 witness: Manager.categorize has answered while providers were
\* registered and none was active
C10_Witness ==
  /\ last.path = "manager"
  /\ last.op = "categorize"
  /\ active_provider_id = NoId
  /\ providers["openai"] # NullProvider
  /\ last.response.error_code = 1

\* what the provider p does with the arguments of the call recorded in last
\* when its collaborators behave as e
ProviderOutcome(p, e) ==
  IF last.op = "chat"
    THEN ProviderChat(p, last.request, e)
    ELSE ProviderCategorize(p, FileName, last.filepath, last.is_directory,
                            last.consistency_context, last.request, e)

\* C11: when the Manager's checks pass (a provider is active, it is allowed
\* in the current mode, the request is not a LocalOnly one for a remote
\* provider), Manager.chat and Manager.categorize invoke the active provider
\* and return exactly what its chat / categorize returns for the identical
\* arguments, with the identical effect on the collaborators.
C11_ForwardedVerbatim ==
  (/\ last.path = "manager"
   /\ last.op \in {"chat", "categorize"}
   /\ active_provider # NullProvider
   /\ (~active_provider.requires_network \/ privacy_mode = "RemoteAllowed")
   /\ ~(active_provider.requires_network
          /\ last.request.privacy_level = "LocalOnly"))
  => /\ last.invoked = active_provider
     /\ \E e \in Environments(active_provider, last.request) :
          LET out == ProviderOutcome(active_provider, e)
          IN /\ last.fault = out.fault
             /\ last.response = out.response
             /\ last.calls = out.calls
             /\ last.sent = out.sent
             /\ last.sleeps = out.sleeps

\* C11 witness: Manager.chat has returned the reply the self-hosted provider
\* obtained on its second transport call
C11_Witness ==
  /\ last.path = "manager"
  /\ last.op = "chat"
  /\ active_provider = OllamaCloudProvider(TRUE)
  /\ last.request.privacy_level = "FullContent"
  /\ last.request.allow_content_upload = TRUE
  /\ last.calls = 2
  /\ last.response.success = TRUE
  /\ last.response.text = ReplyText

\* C12: unregister(id) removes the provider registered under id and leaves
\* every other entry; if that provider was the active one the active provider
\* becomes absent (the active identity is cleared, so registering the
\* identity again does not reactivate it), if another provider was active it
\* stays active; with an id that is not registered nothing changes.
C12_Unregister ==
  [][last'.op = "unregister_provider"
       => LET id == last'.id
          IN IF id \in ProviderIds /\ providers[id] # NullProvider
               THEN /\ providers'[id] = NullProvider
                    /\ \A j \in ProviderIds \ {id} : providers'[j] = providers[j]
                    /\ active_provider_id = id
                         => /\ active_provider_id' = NoId
                            /\ active_provider' = NullProvider
                    /\ active_provider_id # id
                         => /\ active_provider_id' = active_provider_id
                            /\ active_provider' = active_provider
                    /\ privacy_mode' = privacy_mode
               ELSE /\ providers' = providers
                    /\ active_provider_id' = active_provider_id
                    /\ privacy_mode' = privacy_mode]_vars

\* C12 witness: the active provider has been unregistered while another
\* stays registered, and no provider is active
C12_Witness ==
  /\ last.op = "unregister_provider"
  /\ last.id = "local"
  /\ last.active_before = "local"
  /\ providers["local"] = NullProvider
  /\ providers["openai"] # NullProvider
  /\ active_provider_id = NoId

\* C13: register(provider) with a null provider changes nothing; with a
\* non-null provider the registry afterwards maps the provider's identity to
\* that provider, replacing an entry already there, and every other entry, the
\* active identity and the privacy mode are unchanged.
C13_Register ==
  [][last'.op = "register_provider"
       => LET p == last'.provider
          IN IF p = NullProvider
               THEN /\ providers' = providers
                    /\ active_provider_id' = active_provider_id
                    /\ privacy_mode' = privacy_mode
               ELSE /\ providers'[p.id] = p
                    /\ \A j \in ProviderIds \ {p.id} :
                         providers'[j] = providers[j]
                    /\ active_provider_id' = active_provider_id
                    /\ privacy_mode' = privacy_mode]_vars

\* C13 witness: a configured local provider has been registered under the
\* identity that was registered before and is the active one
C13_Witness ==
  /\ last.op = "register_provider"
  /\ last.provider = LocalProvider(TRUE)
  /\ providers["local"] = LocalProvider(TRUE)
  /\ active_provider_id = "local"
  /\ providers["ollama-cloud"] # NullProvider

\* the call recorded in last is a chat of a configured self-hosted provider
\* that passed the privacy checks and entered the retry loop
InRetryLoop ==
  /\ last.op = "chat"
  /\ last.provider = OllamaCloudProvider(TRUE)
  /\ last.request.privacy_level # "LocalOnly"
  /\ (last.request.privacy_level = "FullContent"
        => last.request.allow_content_upload)

\* a transport call that came back with a status in 500..599
Is5xx(h) == ~h.raises /\ h.status_code >= 500 /\ h.status_code < 600

\* C14: in self-hosted chat with max_retries = N >= 0, if every transport
\* call returns a 5xx status the provider makes exactly N + 1 transport calls
\* and then returns a failure response; if the first transport call returns
\* 404 it makes exactly one transport call.
C14_RetryCount ==
  (InRetryLoop /\ last.request.max_retries >= 0)
  => /\ (\A k \in 1..Len(last.received) : Is5xx(last.received[k]))
          => /\ last.calls = last.request.max_retries + 1
             /\ Len(last.sent) = last.request.max_retries + 1
             /\ last.fault = FALSE
             /\ last.response.success = FALSE
     /\ (Len(last.received) >= 1 /\ ~last.received[1].raises
           /\ last.received[1].status_code = 404)
          => last.calls = 1

\* C14 witness: with max_retries = 3 the transport has answered 500, 599,
\* 500, 500 and chat has returned a failure after four calls
C14_Witness ==
  /\ InRetryLoop
  /\ last.request.max_retries = 3
  /\ Len(last.received) = 4
  /\ last.received[2].status_code = 599
  /\ \A k \in 1..4 : Is5xx(last.received[k])
  /\ last.calls = 4
  /\ last.response.success = FALSE

\* a transient network failure: the transport reports an error without a
\* status (status_code 0), or a status in 500..599
Transient(h) == ~h.raises /\ (h.status_code = 0 \/ Is5xx(h))

\* C15 (as claimed): in self-hosted chat a further transport attempt is made
\* only after a transient network failure (a transport-level error or a 5xx
\* status); a 2xx status, a status in [400,500) and any other non-2xx status
\* end the loop on first occurrence.
C15_OnlyTransientRetried ==
  InRetryLoop
  => \A k \in 1..(Len(last.received) - 1) : Transient(last.received[k])

\* C16 (as claimed): chat and categorize of every provider and of the Manager
\* always return a response object and never let a fault cross to the
\* caller, whatever the collaborators do (the client raising, the injected
\* transport raising, a 2xx JSON body whose message, message.content,
\* response or error member is not of the expected type).
C16_NoFaultCrosses ==
  last.op \in {"chat", "categorize"} => last.fault = FALSE

\* C17 (as claimed): every response with success = false returned by a
\* provider or by the Manager carries a non-zero error_code and a non-empty
\* error_message, for every transport outcome and every max_retries.
C17_FailureHasCodeAndMessage ==
  (/\ last.op \in {"chat", "categorize"}
   /\ last.fault = FALSE
   /\ last.response.success = FALSE)
  => /\ last.response.error_code # 0
     /\ last.response.error_message # ""

\* C18 (as claimed): whenever a provider or the Manager returns error_code
\* 403, no transport or underlying-client call was made for that operation
\* and used_remote_inference = false.
C18_403MeansBlockedBeforeCall ==
  (/\ last.op \in {"chat", "categorize"}
   /\ last.fault = FALSE
   /\ last.response.error_code = 403)
  => /\ last.calls = 0
     /\ last.sent = <<>>
     /\ last.response.used_remote_inference = FALSE

\* the file paths of the items drawn
Paths == {i.filepath : i \in Items}

\* C19: for both remote providers, categorize calls that differ only in the
\* file path, with allow_content_upload = false and a privacy level other
\* than FullContent, pass identical data to the transport or the underlying
\* client (the path is withheld): what the call recorded in last handed over
\* is what the same call with any other path hands over, under the same
\* behaviour of the collaborators.
C19_PathWithheld ==
  (/\ last.op = "categorize"
   /\ last.provider # NullProvider
   /\ last.provider.requires_network
   /\ last.invoked # NullProvider
   /\ last.request.allow_content_upload = FALSE
   /\ last.request.privacy_level # "FullContent")
  => \E e \in Environments(last.provider, last.request) :
       /\ last.sent = ProviderOutcome(last.provider, e).sent
       /\ \A f \in Paths \cup {""} :
            ProviderCategorize(last.provider, FileName, f, last.is_directory,
                               last.consistency_context, last.request, e).sent
              = last.sent

\* C19 witness: the commercial provider has categorized an item at level
\* MetadataOnly without consent and handed the client the name and no path
C19_Witness ==
  /\ last.op = "categorize"
  /\ last.provider = OpenAIProvider(TRUE)
  /\ last.filepath = "/home/user/photo.jpg"
  /\ last.request.privacy_level = "MetadataOnly"
  /\ last.request.allow_content_upload = FALSE
  /\ last.response.success = TRUE
  /\ Len(last.sent) = 1
  /\ last.sent[1].file_name = FileName
  /\ last.sent[1].file_path = ""

\* C20 (as claimed): for both remote providers the privacy checks run before
\* the configuration check: a request that fails a privacy check (LocalOnly,
\* or FullContent without consent) is answered 403 whether or not the
\* provider is configured, and a request that passes them on an unconfigured
\* provider is answered success = false, error_code = 1,
\* used_remote_inference = false with no transport or client call.
C20_PrivacyBeforeConfiguration ==
  (/\ last.op \in {"chat", "categorize"}
   /\ last.invoked # NullProvider
   /\ last.invoked.requires_network)
  => LET fails_privacy ==
           \/ last.request.privacy_level = "LocalOnly"
           \/ (last.request.privacy_level = "FullContent"
                 /\ ~last.request.allow_content_upload)
     IN /\ fails_privacy
             => /\ last.fault = FALSE
                /\ last.response.success = FALSE
                /\ last.response.error_code = 403
        /\ (~fails_privacy /\ ~last.invoked.configured)
             => /\ last.fault = FALSE
                /\ last.response.success = FALSE
                /\ last.response.error_code = 1
                /\ last.response.used_remote_inference = FALSE
                /\ last.calls = 0
                /\ last.sent = <<>>

\* what the provider p does with the call recorded in last when the request
\* is r instead and its collaborators behave as e
OutcomeFor(p, r, e) ==
  IF last.op = "chat"
    THEN ProviderChat(p, r, e)
    ELSE ProviderCategorize(p, FileName, last.filepath, last.is_directory,
                            last.consistency_context, r, e)

\* C21: the Local provider never rejects on privacy: requests that differ
\* only in privacy_level and allow_content_upload yield the same success,
\* text and error_code from Local chat and categorize (under the same
\* behaviour of the client), and every Local response has
\* used_remote_inference = false and actual_privacy_level = LocalOnly.
C21_LocalIgnoresPrivacy ==
  (/\ last.op \in {"chat", "categorize"}
   /\ last.invoked # NullProvider
   /\ last.invoked.variant = "Local")
  => /\ last.fault = FALSE
     /\ last.response.used_remote_inference = FALSE
     /\ last.response.actual_privacy_level = "LocalOnly"
     /\ \E e \in Environments(last.invoked, last.request) :
          /\ OutcomeFor(last.invoked, last.request, e).response = last.response
          /\ \A l \in PrivacyLevel, a \in BOOLEAN :
               LET out == OutcomeFor(last.invoked,
                            [last.request EXCEPT !.privacy_level = l,
                                                 !.allow_content_upload = a],
                            e)
               IN /\ out.fault = FALSE
                  /\ out.response.success = last.response.success
                  /\ out.response.text = last.response.text
                  /\ out.response.error_code = last.response.error_code

\* C21 witness: the Local provider has answered a FullContent request without
\* upload consent through the Manager
C21_Witness ==
  /\ last.op = "categorize"
  /\ last.path = "manager"
  /\ last.invoked = LocalProvider(TRUE)
  /\ last.request.privacy_level = "FullContent"
  /\ last.request.allow_content_upload = FALSE
  /\ last.response.success = TRUE
  /\ last.response.text = ReplyText

\* C22 (as claimed): Local chat and categorize on a provider whose model
\* artifact is missing or unreadable, or whose path is empty, return
\* success = false with error_code = 1 without creating a client or
\* attempting an inference call; when the artifact is usable and the
\* underlying engine raises, they return success = false with error_code = 2.
C22_LocalErrorCodes ==
  (/\ last.op \in {"chat", "categorize"}
   /\ last.invoked # NullProvider
   /\ last.invoked.variant = "Local")
  => /\ last.invoked.config \in {"empty", "absent", "unreadable"}
          => /\ last.fault = FALSE
             /\ last.response.success = FALSE
             /\ last.response.error_code = 1
             /\ last.created = 0
             /\ last.client = "unused"
             /\ last.calls = 0
             /\ last.sent = <<>>
     /\ (last.invoked.config = "usable"
           /\ last.client \in {"throws", "create_throws"})
          => /\ last.fault = FALSE
             /\ last.response.success = FALSE
             /\ last.response.error_code = 2

\* the required configuration of the chosen kind is missing
FactoryConfigMissing(settings) ==
  \/ settings.llm_choice = "Unset"
  \/ settings.llm_choice = "Remote" /\ settings.remote_api_key = ""
  \/ settings.llm_choice = "Custom"
       /\ (settings.custom.id = "" \/ settings.custom.path = "")
  \/ settings.llm_choice = "Local_3b"
       /\ settings.LOCAL_LLM_3B_DOWNLOAD_URL = NoUrl
  \/ settings.llm_choice = "Local_7b"
       /\ settings.LOCAL_LLM_7B_DOWNLOAD_URL = NoUrl

\* C23 (as claimed): the provider factory returns an absent provider, without
\* raising, for every choice whose required configuration is missing
\* (commercial with an empty API key, custom on-device with no id or path,
\* on-device small/large with no download URL in the environment, unset) and
\* returns a provider when the required configuration of the chosen kind is
\* present.
C23_FactoryAbsentIffConfigMissing ==
  last.op = "create_provider_from_settings"
  => /\ last.fault = FALSE
     /\ FactoryConfigMissing(last.settings) => last.provider = NullProvider
     /\ (last.settings.llm_choice \in {"Remote", "Custom", "Local_3b", "Local_7b"}
           /\ ~FactoryConfigMissing(last.settings))
          => last.provider # NullProvider

\* C24 (as claimed): with the administrative thread changing the privacy
\* mode while a worker is inside Manager.chat or Manager.categorize, no
\* provider that requires network is invoked after the privacy mode has
\* become LocalOnly: the provider is allowed in the state in which it is
\* invoked.
C24_InvokedOnlyWhileAllowed ==
  (/\ last.path = "worker"
   /\ last.invoked # NullProvider
   /\ last.invoked.requires_network)
  => last.mode = "RemoteAllowed"

\* C25 (as claimed): a worker's Manager.chat or Manager.categorize
\* interleaved with an administrative unregister of the active provider
\* returns the no-active-provider error or the response of the provider it
\* looked up; it never faults and never dispatches to another provider.
C25_LookupToleratesUnregister ==
  (last.path = "worker" /\ last.overlapped)
  => /\ last.fault = FALSE
     /\ last.provider = NullProvider
          => /\ last.response = create_no_provider_error
             /\ last.invoked = NullProvider
     /\ last.invoked # NullProvider => last.invoked = last.provider

\* C26 (as claimed): health_check() returns NotConfigured whenever required
\* configuration is absent; the self-hosted provider whose base URL is set
\* and whose model id is empty reports NotConfigured and makes no
\* health-endpoint call; health_check() = Healthy implies is_configured().
C26_HealthReflectsConfiguration ==
  last.op = "health_check"
  => /\ last.provider.config \in {"empty", "no_key", "no_url",
                                  "no_url_no_model", "no_model"}
          => /\ last.fault = FALSE
             /\ last.health = "NotConfigured"
             /\ last.calls = 0
     /\ last.health = "Healthy" => last.provider.configured

\* C27 (as claimed): in self-hosted chat no delay precedes the first
\* attempt, the delay slept before the k-th retry is exactly
\* backoff_base_ms * 2^(k-1), and no delay follows the attempt that ends the
\* loop: a call that made n transport calls slept n - 1 times, and the k-th
\* sleep is the positive multiple 2^(k-1) of the base (so that r retries
\* sleep backoff_base_ms * (2^r - 1) in total).
C27_BackoffSchedule ==
  InRetryLoop
  => /\ Len(last.sleeps) = (IF last.calls = 0 THEN 0 ELSE last.calls - 1)
     /\ \A k \in 1..Len(last.sleeps) :
          /\ last.sleeps[k] > 0
          /\ last.sleeps[k] % last.provider.retry_backoff_base_ms = 0
          /\ last.sleeps[k] \div last.provider.retry_backoff_base_ms
               = 2 ^ (k - 1)

\* the response that parse_chat_response derives from one transport outcome
DerivedFrom(h) == parse_chat_response(last.provider, h)

\* C28: the response of self-hosted chat is derived from the outcome of the
\* last transport call made in that chat: success flag, status-derived
\* error_code and text are those of the final attempt, whatever the earlier
\* attempts came back with.
C28_ResponseFromLastAttempt ==
  (InRetryLoop /\ last.calls >= 1 /\ last.fault = FALSE)
  => /\ last.calls = Len(last.received)
     /\ last.response =
          [DerivedFrom(last.received[last.calls])
             EXCEPT !.actual_privacy_level = last.request.privacy_level]
     /\ last.response.success =
          DerivedFrom(last.received[last.calls]).success
     /\ last.response.error_code =
          DerivedFrom(last.received[last.calls]).error_code
     /\ last.response.text = DerivedFrom(last.received[last.calls]).text

\* C28 witness: the transport has answered 500, 500 and then 404, and chat
\* has returned the failure of the 404 (error_code 404), not of a 500
C28_Witness ==
  /\ InRetryLoop
  /\ last.calls = 3
  /\ last.fault = FALSE
  /\ last.received[1].status_code = 500
  /\ last.received[2].status_code = 500
  /\ last.received[3].status_code = 404
  /\ last.response.success = FALSE
  /\ last.response.error_code = 404

\* C29 (as claimed): the self-hosted provider's configured max_retries bounds
\* the retries of its chat calls: with configuration max_retries = 0 and a
\* transport that returns a 5xx status, chat makes exactly one transport
\* call, whatever the request's own max_retries is.
C29_ConfiguredMaxRetriesBounds ==
  (/\ last.op = "chat"
   /\ last.provider = OllamaWithMaxRetries(0)
   /\ last.request.privacy_level # "LocalOnly"
   /\ (last.request.privacy_level = "FullContent"
         => last.request.allow_content_upload)
   /\ last.request.max_retries >= 0
   /\ \A k \in 1..Len(last.received) : Is5xx(last.received[k]))
  => last.calls = 1

\* the larger of two integers
Max(a, b) == IF a >= b THEN a ELSE b

OpenAIPassedChecks ==
  /\ last.op \in {"chat", "categorize"}
  /\ last.invoked # NullProvider
  /\ last.invoked.variant = "OpenAI"
  /\ last.invoked.configured
  /\ last.request.privacy_level # "LocalOnly"
  /\ (last.op = "chat" /\ last.request.privacy_level = "FullContent")
       => last.request.allow_content_upload

\* C31 (as claimed): a commercial-provider chat or categorize that passes the
\* privacy and configuration checks invokes the underlying client exactly
\* once, with no retry; if that invocation raises, the response has
\* success = false and error_code = 2 and no second invocation is made.
C31_ExactlyOneInvocation ==
  OpenAIPassedChecks
  => /\ last.calls = 1
     /\ Len(last.sent) = 1
     /\ last.client = "throws"
          => /\ last.response.success = FALSE
             /\ last.response.error_code = 2

\* C31 (amended): such a call creates the client once and invokes it at most
\* once, with no retry: exactly once when create_client() returned, not at
\* all when create_client() raised; a raise from either gives success = false
\* and error_code = 2.
C31_AtMostOneInvocation ==
  OpenAIPassedChecks
  => /\ last.fault = FALSE
     /\ last.created = 1
     /\ last.calls = (IF last.client = "create_throws" THEN 0 ELSE 1)
     /\ Len(last.sent) = last.calls
     /\ last.client \in {"throws", "create_throws"}
          => /\ last.response.success = FALSE
             /\ last.response.error_code = 2
     /\ last.client = "ok" => last.response.success = TRUE

\* C31 witness: the underlying client has raised during categorize and the
\* failure came back with error_code 2 after the one call
C31_Witness ==
  /\ OpenAIPassedChecks
  /\ last.op = "categorize"
  /\ last.client = "throws"
  /\ last.calls = 1
  /\ last.response.success = FALSE
  /\ last.response.error_code = 2

\* the body parsed has the member, as a string or as an object
Present(key) ==
  \/ key \in last.received[1].body.members
  \/ (key \o ":object") \in last.received[1].body.members

\* the member is a string
IsString(key) == key \in last.received[1].body.members

\* C32 (as claimed): parsing a 2xx self-hosted chat body follows a fixed
\* priority: message.content present gives success with that text; else a
\* top-level response gives success with that text; else a top-level error
\* gives failure with that message; otherwise failure with "Unexpected
\* response format"; a body with both message.content and error succeeds;
\* and total_tokens always equals prompt_tokens + completion_tokens.
C32_ParsePriority ==
  (/\ last.op = "parse_chat_response"
   /\ HttpSuccess(last.received[1])
   /\ last.received[1].body.valid)
  => /\ last.fault = FALSE
     /\ Present("message.content")
          => /\ last.response.success = TRUE
             /\ IsString("message.content") => last.response.text = ReplyText
     /\ (~Present("message.content") /\ Present("response"))
          => /\ last.response.success = TRUE
             /\ IsString("response") => last.response.text = GenerateText
     /\ (~Present("message.content") /\ ~Present("response")
           /\ Present("error"))
          => /\ last.response.success = FALSE
             /\ IsString("error") => last.response.error_message = ErrorText
     /\ (~Present("message.content") /\ ~Present("response")
           /\ ~Present("error"))
          => /\ last.response.success = FALSE
             /\ last.response.error_message = "Unexpected response format"
     /\ last.response.usage.prompt_tokens
          <= 2147483647 - last.response.usage.completion_tokens
     /\ last.response.usage.total_tokens =
          last.response.usage.prompt_tokens
            + last.response.usage.completion_tokens

\* the registry or the active identity changes in this step
ManagerChanges ==
  providers' # providers \/ active_provider_id' # active_provider_id

\* C33 (as claimed): the Manager's registry and active-provider identity
\* change only during register, unregister and set_active calls; every other
\* Manager operation (set_privacy_mode, chat, categorize, validate_request
\* and the accessors) leaves both unchanged.
C33_ChangedOnlyByRegistryCalls ==
  [][ManagerChanges
       => last'.op \in {"register_provider", "unregister_provider",
                        "set_active_provider"}]_vars

\* C33 (amended): the registry changes only during register and unregister
\* calls, the active identity only during unregister, set_active and
\* set_privacy_mode calls, and set_privacy_mode changes it only by clearing
\* the identity of an active provider that requires network on a switch to
\* LocalOnly; chat, categorize and validate_request leave both unchanged.
C33_ChangedOnlyByAdministration ==
  [][/\ providers' # providers
          => last'.op \in {"register_provider", "unregister_provider"}
     /\ active_provider_id' # active_provider_id
          => \/ last'.op \in {"unregister_provider", "set_active_provider"}
             \/ /\ last'.op = "set_privacy_mode"
                /\ last'.mode = "LocalOnly"
                /\ active_provider.requires_network
                /\ active_provider_id' = NoId]_vars

\* C33 witness: the Manager has dispatched a chat to its active provider and
\* the registry and the active identity are as they were set
C33_Witness ==
  /\ last.op = "chat"
  /\ last.path = "manager"
  /\ last.invoked # NullProvider
  /\ active_provider_id = last.invoked.id
  /\ providers[active_provider_id] = last.invoked

\* the user prompt of a categorization made of the name and the consistency
\* context only
MetadataPrompt ==
  "Categorize " \o (IF last.is_directory THEN "directory" ELSE "file")
    \o ": " \o FileName
    \o (IF last.consistency_context # ""
          THEN "\n\n" \o last.consistency_context ELSE "")

\* C34 (as claimed): whenever the request's privacy_level is MetadataOnly,
\* the user prompt that self-hosted categorize hands to chat, and hence the
\* transport payload, does not contain the file path, for either value of
\* allow_content_upload: only the name and the consistency context are sent.
C34_MetadataOnlyOmitsPath ==
  (/\ last.op = "categorize"
   /\ last.invoked # NullProvider
   /\ last.invoked.variant = "Ollama"
   /\ last.request.privacy_level = "MetadataOnly")
  => \A k \in 1..Len(last.sent) :
       last.sent[k].body.messages[2].content = MetadataPrompt

\* C35 (as claimed): for every remote-provider operation and every
\* max_retries value (0 and negative values included), the response's
\* used_remote_inference is true if and only if at least one call to the
\* transport or the underlying client was made during that operation.
C35_RemoteFlagIffCalled ==
  (/\ last.op \in {"chat", "categorize"}
   /\ last.invoked # NullProvider
   /\ last.invoked.requires_network
   /\ last.fault = FALSE)
  => (last.response.used_remote_inference <=> last.calls >= 1)

C37_ValidateAgreesWithDispatch ==
  (last.op \in {"chat", "categorize"} /\ last.path = "manager")
  => /\ (ValidateRequest(last.request) = "") <=> (last.invoked # NullProvider)
     /\ last.invoked # NullProvider => last.invoked = active_provider

\* C37 witness: the Manager has refused a chat marked LocalOnly for its
\* active network provider, which validate_request refuses as well
C37_Witness ==
  /\ last.op = "chat"
  /\ last.path = "manager"
  /\ active_provider # NullProvider
  /\ active_provider.requires_network
  /\ privacy_mode = "RemoteAllowed"
  /\ last.request.privacy_level = "LocalOnly"
  /\ last.invoked = NullProvider
  /\ ValidateRequest(last.request) # ""

\* C38: in every state reachable by register, unregister, set_active and
\* set_privacy_mode the active identity is empty or a key of the registry,
\* and active_provider() is absent exactly when the active identity is empty.
C38_ActiveIsEmptyOrRegistered ==
  /\ \/ active_provider_id = NoId
     \/ /\ active_provider_id \in ProviderIds
        /\ providers[active_provider_id] # NullProvider
  /\ (active_provider = NullProvider) <=> (active_provider_id = NoId)

\* C38 witness: the active provider has just been unregistered while another
\* provider stays registered
C38_Witness ==
  /\ last.op = "unregister_provider"
  /\ last.id \in ProviderIds
  /\ last.active_before = last.id
  /\ providers[last.id] = NullProvider
  /\ all_providers # {}
  /\ active_provider_id = NoId

\* C39: a deactivation by a switch to LocalOnly is not undone by re-enabling
\* remote: from a state with no active provider, which is the state the
\* deactivation leaves, set_privacy_mode(RemoteAllowed, true) and every other
\* call leave active_provider() absent; it becomes present only by a
\* set_active_provider call that succeeds, and then it is the provider named.
C39_DeactivationNotUndone ==
  [][(active_provider = NullProvider /\ active_provider' # NullProvider)
       => /\ last'.op = "set_active_provider"
          /\ last'.ret
          /\ active_provider_id' = last'.id]_vars

\* C39 witness: remote has been re-enabled with the user's confirmation while
\* a registered network provider is not active and nothing else is
C39_Witness ==
  /\ last.op = "set_privacy_mode"
  /\ last.mode = "RemoteAllowed"
  /\ last.confirmed
  /\ last.ret
  /\ last.active_before = NoId
  /\ \E i \in ProviderIds :
       providers[i] # NullProvider /\ providers[i].requires_network
  /\ active_provider = NullProvider

\* C40: every backoff delay the self-hosted retry loop computes, in 32-bit
\* signed arithmetic as backoff_base_ms * (1 << (k-1)), is positive and is
\* the mathematical value backoff_base_ms * 2^(k-1): the k-th delay slept is
\* positive and divides by 2^(k-1) into the configured base exactly.
C40_BackoffWithoutOverflow ==
  InRetryLoop
  => \A k \in 1..Len(last.sleeps) :
       /\ last.sleeps[k] > 0
       /\ last.sleeps[k] % (2 ^ (k - 1)) = 0
       /\ last.sleeps[k] \div (2 ^ (k - 1))
            = last.provider.retry_backoff_base_ms
====
